---- MODULE Spec2Model ----
(***************************************************************************)
(* Model of the question-answering API handler (pages/api/ask) of the      *)
(* AI-ELECT repository: the slot-filling dialogue state machine, the       *)
(* evidence retrieval / ranking pipeline, the evidence-sufficiency gate    *)
(* and the answer synthesizer.                                             *)
(*                                                                         *)
(* Texts are TLA+ strings.  A JavaScript regular expression of the source  *)
(* is written with the matching operators of the first section (substring, *)
(* \b word boundary, anchors); the i flag is modelled by lower-casing the  *)
(* subject and writing the pattern in lower case.                          *)
(***************************************************************************)
EXTENDS Integers, Sequences, FiniteSets, TLC

\* Body of a value that is computed once.
With(value, Body(_)) == Body(value)

\* ------------------------------------------------------------------------
\* Strings and regular-expression matching
\* ------------------------------------------------------------------------

Ch(s, i) == IF i >= 1 /\ i <= Len(s) THEN SubSeq(s, i, i) ELSE ""

Digits == {"0", "1", "2", "3", "4", "5", "6", "7", "8", "9"}

LowerLatin ==
  {"a", "b", "c", "d", "e", "f", "g", "h", "i", "j", "k", "l", "m",
   "n", "o", "p", "q", "r", "s", "t", "u", "v", "w", "x", "y", "z"}

UpperLatin ==
  {"A", "B", "C", "D", "E", "F", "G", "H", "I", "J", "K", "L", "M",
   "N", "O", "P", "Q", "R", "S", "T", "U", "V", "W", "X", "Y", "Z"}

\* [א-ת]: the Hebrew letters, final forms included.
HebrewLetters ==
  {"א", "ב", "ג", "ד", "ה", "ו", "ז", "ח", "ט", "י", "ך", "כ", "ל", "ם",
   "מ", "ן", "נ", "ס", "ע", "ף", "פ", "ץ", "צ", "ק", "ר", "ש", "ת"}

\* \s of a regular expression (the corpus of the model holds blanks only).
IsSpace(c) == c \in {" ", "\n"}

\* \w of a JavaScript regular expression without the u flag: [A-Za-z0-9_].
IsWordCh(c) == c \in LowerLatin \cup UpperLatin \cup Digits \cup {"_"}

IsAlnum(c) == c \in LowerLatin \cup UpperLatin \cup Digits

\* String.prototype.toLowerCase on one character (Latin and the Greek omega).
LowerCh(c) ==
  CASE c = "A" -> "a" [] c = "B" -> "b" [] c = "C" -> "c" [] c = "D" -> "d"
    [] c = "E" -> "e" [] c = "F" -> "f" [] c = "G" -> "g" [] c = "H" -> "h"
    [] c = "I" -> "i" [] c = "J" -> "j" [] c = "K" -> "k" [] c = "L" -> "l"
    [] c = "M" -> "m" [] c = "N" -> "n" [] c = "O" -> "o" [] c = "P" -> "p"
    [] c = "Q" -> "q" [] c = "R" -> "r" [] c = "S" -> "s" [] c = "T" -> "t"
    [] c = "U" -> "u" [] c = "V" -> "v" [] c = "W" -> "w" [] c = "X" -> "x"
    [] c = "Y" -> "y" [] c = "Z" -> "z" [] c = "Ω" -> "ω" [] c = "Δ" -> "δ"
    [] OTHER -> c

RECURSIVE ConcatRange(_, _, _)
\* The concatenation of the strings pieces[lo], ..., pieces[hi], by quarters.
ConcatRange(pieces, lo, hi) ==
  LET P(k) == IF k <= hi THEN pieces[k] ELSE ""
  IN
  With((hi - lo + 4) \div 4, LAMBDA q :
  LET Lim(k) == IF k < hi THEN k ELSE hi
  IN
     IF lo > hi THEN ""
     ELSE IF hi - lo < 4 THEN (P(lo) \o P(lo + 1)) \o (P(lo + 2) \o P(lo + 3))
     ELSE (ConcatRange(pieces, lo, lo + q - 1)
             \o ConcatRange(pieces, lo + q, Lim(lo + 2 * q - 1)))
          \o (ConcatRange(pieces, lo + 2 * q, Lim(lo + 3 * q - 1))
                \o ConcatRange(pieces, lo + 3 * q, hi)))

\* The concatenation of a sequence of strings.
Concat(pieces) == ConcatRange(pieces, 1, Len(pieces))

\* String.prototype.toLowerCase
ToLower(s) == IF s = "" THEN "" ELSE Concat([i \in 1..Len(s) |-> LowerCh(Ch(s, i))])

\* p occurs in s at position i.
At(s, i, p) == i >= 1 /\ i + Len(p) - 1 <= Len(s) /\ SubSeq(s, i, i + Len(p) - 1) = p

\* /p/ : p occurs somewhere in s.
Has(s, p) == \E i \in 1..(Len(s) - Len(p) + 1) : At(s, i, p)

\* /(p1|p2|...)/ for a set of literal alternatives.
HasAny(s, ps) == \E p \in ps : Has(s, p)

\* \b between positions i-1 and i of s.
Bnd(s, i) == IsWordCh(Ch(s, i - 1)) # IsWordCh(Ch(s, i))

\* /\bp\b/
HasW(s, p) ==
  \E i \in 1..(Len(s) - Len(p) + 1) : At(s, i, p) /\ Bnd(s, i) /\ Bnd(s, i + Len(p))

\* /p\b/
HasWEnd(s, p) ==
  \E i \in 1..(Len(s) - Len(p) + 1) : At(s, i, p) /\ Bnd(s, i + Len(p))

\* /^p/
StartsWith(s, p) == At(s, 1, p)

IsDigit(c) == c \in Digits

RECURSIVE SkipDigits(_, _)
\* The first position >= i of s that holds no digit (Len(s)+1 if none).
SkipDigits(s, i) ==
  IF i <= Len(s) /\ IsDigit(Ch(s, i)) THEN SkipDigits(s, i + 1) ELSE i

RECURSIVE SkipSpaces(_, _)
\* The first position >= i of s that holds no white space (Len(s)+1 if none).
SkipSpaces(s, i) ==
  IF i <= Len(s) /\ IsSpace(Ch(s, i)) THEN SkipSpaces(s, i + 1) ELSE i

\* String.prototype.trim
TrimLeftPos(s) == SkipSpaces(s, 1)

RECURSIVE TrimRightPos(_, _)
TrimRightPos(s, j) == IF j >= 1 /\ IsSpace(Ch(s, j)) THEN TrimRightPos(s, j - 1) ELSE j

Trim(s) ==
  With(TrimLeftPos(s), LAMBDA a :
  With(TrimRightPos(s, Len(s)), LAMBDA b :
     IF a > b THEN "" ELSE SubSeq(s, a, b)))

\* /^\d+$/
AllDigits(s) == Len(s) >= 1 /\ SkipDigits(s, 1) = Len(s) + 1

\* /^\d+(\.\d+)?$/
IsNumeral(s) ==
  With(SkipDigits(s, 1), LAMBDA e :
     /\ e > 1
     /\ \/ e = Len(s) + 1
        \/ /\ Ch(s, e) = "."
           /\ SkipDigits(s, e + 1) > e + 1
           /\ SkipDigits(s, e + 1) = Len(s) + 1)

\* The end (exclusive) of the match of \d+(\.\d+)? that starts at position i.
NumeralEnd(s, i) ==
  With(SkipDigits(s, i), LAMBDA e :
  With(SkipDigits(s, e + 1), LAMBDA f :
     IF Ch(s, e) = "." /\ f > e + 1 THEN f ELSE e))

\* The first match of /(\d+(\.\d+)?)/ in s, "" if there is none.
FirstNumeral(s) ==
  IF \E i \in 1..Len(s) : IsDigit(Ch(s, i))
  THEN LET i == CHOOSE k \in 1..Len(s) :
                  IsDigit(Ch(s, k)) /\ \A j \in 1..(k - 1) : ~IsDigit(Ch(s, j))
       IN SubSeq(s, i, NumeralEnd(s, i) - 1)
  ELSE ""

\* replace(/\s+/g, " "): every run of white space becomes one blank.
CollapseSpaces(s) ==
  IF s = "" THEN "" ELSE
  Concat([i \in 1..Len(s) |->
            IF IsSpace(Ch(s, i))
            THEN (IF IsSpace(Ch(s, i - 1)) THEN "" ELSE " ")
            ELSE Ch(s, i)])

\* replace(/c/g, r) for the single character c.
ReplaceCh(s, c, r) ==
  IF s = "" THEN "" ELSE
  Concat([i \in 1..Len(s) |-> IF Ch(s, i) = c THEN r ELSE Ch(s, i)])

\* replace(/c+/g, r) for the single character c.
ReplaceChRun(s, c, r) ==
  IF s = "" THEN "" ELSE
  Concat([i \in 1..Len(s) |->
            IF Ch(s, i) = c
            THEN (IF Ch(s, i - 1) = c THEN "" ELSE r)
            ELSE Ch(s, i)])

\* ------------------------------------------------------------------------
\* lib/normalizeHebrewText.ts
\* ------------------------------------------------------------------------

IsHeb(c) == c \in HebrewLetters

\* A match of /([\u0590-\u05ff])\s+([\u0590-\u05ff])\s+([\u0590-\u05ff])/ at i;
\* white-space runs are single blanks at this point.
BrokenAt(s, i) ==
  /\ IsHeb(Ch(s, i)) /\ IsSpace(Ch(s, i + 1)) /\ IsHeb(Ch(s, i + 2))
  /\ IsSpace(Ch(s, i + 3)) /\ IsHeb(Ch(s, i + 4))

RECURSIVE BrokenMatches(_, _)
\* The starts of the matches a global replace finds from position i on:
\* leftmost first, none overlapping an earlier one.
BrokenMatches(s, i) ==
  With({c \in i..Len(s) : BrokenAt(s, c)}, LAMBDA cand :
  With(CHOOSE c \in cand : \A d \in cand : c <= d, LAMBDA m :
     IF cand = {} THEN {} ELSE {m} \cup BrokenMatches(s, m + 5)))

\* replace(/(H)\s+(H)\s+(H)/g, "$1$2$3")
MergeBrokenLetters(s) ==
  With(BrokenMatches(s, 1), LAMBDA M :
     IF s = "" THEN "" ELSE
     Concat([i \in 1..Len(s) |->
               IF i \in M THEN Ch(s, i) \o Ch(s, i + 2) \o Ch(s, i + 4)
               ELSE IF \E m \in M : m < i /\ i <= m + 4 THEN ""
               ELSE Ch(s, i)]))

\* Number of passes of the broken-word loop (iterations < 5).
MaxMergeIterations == 5

\* The next rule on a text that the rules before it left something of.
Rewritten(s, Rule(_)) == IF s = "" THEN "" ELSE Rule(s)

RECURSIVE MergeLoop(_, _)
MergeLoop(s, iterations) ==
  With(MergeBrokenLetters(s), LAMBDA t :
    IF t # s /\ iterations + 1 < MaxMergeIterations THEN MergeLoop(t, iterations + 1) ELSE t)

\* replace(/([,:;!?])/g, "$1 ")
SpaceAfterPunct(s) ==
  IF s = "" THEN "" ELSE
  Concat([i \in 1..Len(s) |->
            IF Ch(s, i) \in {",", ":", ";", "!", "?"} THEN Ch(s, i) \o " " ELSE Ch(s, i)])

\* replace(/\s+([,.:;!?])/g, "$1")
NoSpaceBeforePunct(s) ==
  IF s = "" THEN "" ELSE
  Concat([i \in 1..Len(s) |->
            IF IsSpace(Ch(s, i)) /\ Ch(s, SkipSpaces(s, i)) \in {",", ".", ":", ";", "!", "?"}
            THEN "" ELSE Ch(s, i)])

\* The three parentheses rules: [א-ת]( -> "$1 (", )[א-ת] -> ") $1", )( -> ") (";
\* and the two boundary rules [א-ת][0-9A-Za-z] and [0-9A-Za-z][א-ת] -> "$1 $2".
\* Each inserts one blank between two adjacent characters.
SpaceBetween(s, kind) ==
  IF s = "" THEN "" ELSE
  Concat([i \in 1..Len(s) |->
            With(Ch(s, i), LAMBDA a :
            With(Ch(s, i + 1), LAMBDA b :
            With(      CASE kind = "heb(" -> IsHeb(a) /\ b = "("
                         [] kind = ")heb" -> a = ")" /\ IsHeb(b)
                         [] kind = ")(" -> a = ")" /\ b = "("
                         [] kind = "heb-alnum" -> IsHeb(a) /\ IsAlnum(b)
                         [] kind = "alnum-heb" -> IsAlnum(a) /\ IsHeb(b), LAMBDA hit :
               IF hit THEN a \o " " ELSE a)))])

\* replace(/\s*op\s*/g, " op ") for the operator character op.
SpaceAroundOp(s, op) ==
  IF s = "" THEN "" ELSE
  Concat([i \in 1..Len(s) |->
            IF Ch(s, i) = op THEN " " \o op \o " "
            ELSE IF IsSpace(Ch(s, i)) /\
                    (Ch(s, SkipSpaces(s, i)) = op \/ Ch(s, TrimRightPos(s, i)) = op)
                 THEN "" ELSE Ch(s, i)])

\* The rules of normalizeHebrewText, in the order of the source.  Each step is
\* computed before the next one starts.  Not modelled: the control-character
\* and newline rules, the broken-numbering rules and the OCR private-use
\* characters; no text of the model holds such characters.

\* White space, and the loop that merges broken Hebrew words.
NormalizeWhitespace(input) ==
  Rewritten(Rewritten(CollapseSpaces(input), LAMBDA t1 : MergeLoop(t1, 0)),
            LAMBDA t2 : Trim(CollapseSpaces(t2)))

\* "Keep punctuation readable."
NormalizePunctuation(t) == Rewritten(SpaceAfterPunct(t), NoSpaceBeforePunct)

\* "Parentheses spacing." and "Hebrew <-> digits/latin boundaries."
NormalizeBoundaries(t) ==
  Rewritten(Rewritten(Rewritten(Rewritten(SpaceBetween(t, "heb("),
    LAMBDA t5a : SpaceBetween(t5a, ")heb")),
    LAMBDA t5b : SpaceBetween(t5b, ")(")),
    LAMBDA t5 : SpaceBetween(t5, "heb-alnum")),
    LAMBDA t6 : SpaceBetween(t6, "alnum-heb"))

\* "Operators spacing."
NormalizeOperators(t) ==
  Rewritten(Rewritten(SpaceAroundOp(t, "+"),
    LAMBDA t7a : SpaceAroundOp(t7a, "=")),
    LAMBDA t7b : SpaceAroundOp(t7b, "/"))

\* "OCR junk cleanup." and the final white-space rule.
NormalizeJunk(t) ==
  Rewritten(Rewritten(ReplaceChRun(t, "*", " "),
    LAMBDA t8a : ReplaceCh(t8a, "£", "")),
    LAMBDA t8 : Trim(CollapseSpaces(t8)))

normalizeHebrewText(input) ==
  Rewritten(Rewritten(Rewritten(Rewritten(NormalizeWhitespace(input),
    NormalizePunctuation), NormalizeBoundaries), NormalizeOperators), NormalizeJunk)

\* ------------------------------------------------------------------------
\* The texts of the model: user messages, issue types, the source table and
\* the chunk table of the database
\* ------------------------------------------------------------------------

\* JavaScript undefined and null of an optional field.
Undef == "undefined"
Null == "null"

\* !x of JavaScript for a string-valued optional field.
Falsy(x) == x \in {Undef, Null, ""}

\* The question field of the request bodies the model sends.
Questions ==
  {"מה ערך הארקות מותר?",
   "האם 50 אוהם בהארקה תקין?", "הארקות 50 אוהם תקין?", "80 אוהם",
   "Zs", "RA", "PE", "TT", "TN", "לא יודע", "30mA", "אין", "C16", "16", "230",
   "חישוב", "מקור", "הסבר", "תמשיך",
   "מה זה לולאת תקלה?", "מה ערך לולאת תקלה מותר?", "מה זה Zs בפחת?",
   "אין חשמל", "כמה?",
   "מה המרחק משקע לאמבטיה בדירה?", "איך מתקינים ריכוז מונים בבניין?",
   "   ", "')"}

\* The issueType field: absent, or a choice of the client's list
\* (components/HomePage.tsx, ISSUE_TYPES).
IssueTypes == {"", "הארקה / לולאת תקלה", "פחת (RCD)"}

\* Rows of the sources table (SourceMeta).
MkSource(id, title, url, publisher, doc_type) ==
  [id |-> id, title |-> title, url |-> url, publisher |-> publisher,
   doc_type |-> doc_type]

SourceRows ==
  {MkSource("reg", "תקנות החשמל (הארקות)", "https://www.gov.il/earthing",
            "gov", "regulation_il"),
   MkSource("circ", "תקנות החשמל (מעגלים סופיים)", "https://www.gov.il/circuits",
            "gov", "regulation_il"),
   MkSource("med", "תקנות החשמל באתרים רפואיים", "https://www.gov.il/medical",
            "gov", "regulation_il"),
   MkSource("law", "חוק החשמל 2017", "file:חוק-החשמל-2017.pdf",
            "official_local_pdf", "law_il"),
   MkSource("idx", "מאגר תקנות החשמל", "https://www.gov.il/index",
            "gov", "regulation_index"),
   MkSource("list", "רשימת תקנות החשמל", "https://www.gov.il/list",
            "gov", "regulation_index"),
   MkSource("util", "ריכוז מונים - חברת החשמל", "https://www.iec-hamaagal.co.il/m",
            "iec", "utility_il"),
   MkSource("cat", "קטלוג שניידר", "https://www.se.com/il",
            "schneider", "catalog_il")}

SourceOf(id) == CHOOSE s \in SourceRows : s.id = id

\* Rows of the chunks table.
MkChunk(source_id, section, locator, text) ==
  [source_id |-> source_id, section |-> section, locator |-> locator, text |-> text]

ChunkRows ==
  {MkChunk("reg", "תקנה 12", "c1",
           "התנגדות אלקטרודת הארקה RA לא תעלה על 20 ohm ברשת TT"),
   MkChunk("reg", "תקנה 3", "c2",
           "כל מיתקן יצויד במוליך הארקה רציף לכל אורכו"),
   MkChunk("reg", "תקנה 20", "c3",
           "לולאת תקלה Zs תיבדק בכל מעגל סופי לפני הפעלת המיתקן"),
   MkChunk("circ", "תקנה 31", "c4",
           "בחדר אמבטיה בדירה יותקן בית תקע במרחק 60 סמ מהאמבט"),
   MkChunk("med", "תקנה 5", "c5",
           "באתר רפואי תיבדק הארקה של סביבת מטופל אחת לשנה"),
   MkChunk("law", "סעיף 6", "c6",
           "לא יעסוק אדם בביצוע עבודת חשמל אלא ברישיון מאת המנהל"),
   MkChunk("idx", "chunk 1", "c7",
           "מאגר תקנות החשמל: תקנות הארקה, תקנות מעגלים, תקנות לוחות"),
   MkChunk("util", "פרק 2", "c8",
           "ריכוז מונים יותקן בארון מונים נגיש בכניסה לבניין"),
   MkChunk("cat", Null, "c9",
           "מפסק פחת שניידר 30mA דגם A9 לקטלוג לוחות חשמל"),
   MkChunk("reg", "תקנה 13", "c10", "RA עד 20 ohm ב-TT"),
   MkChunk("reg", "תקנה 14", "c11", "הארקה עד 5 ohm"),
   MkChunk("list", "עמוד 1", "c12",
           "רשימת תקנות החשמל: התנגדות הארקה עד 20 ohm, מעגלים סופיים, לוחות")}

ChunkAt(locator) == CHOOSE c \in ChunkRows : c.locator = locator

\* x || "" of JavaScript for an optional string.
OrEmpty(x) == IF x \in {Undef, Null} THEN "" ELSE x

\* The texts that the handler normalizes: the messages, and the fields of the
\* rows, alone and joined as the hit predicates join them.
KnownTexts ==
  Questions \cup {Trim(question) : question \in Questions}
    \cup {ToLower(Trim(question)) : question \in Questions} \cup IssueTypes
    \cup {s.title : s \in SourceRows}
    \cup {OrEmpty(c.section) : c \in ChunkRows}
    \cup {c.text : c \in ChunkRows}
    \cup {SourceOf(c.source_id).title \o " " \o OrEmpty(c.section) \o " " \o c.text :
            c \in ChunkRows}
    \cup {SourceOf(c.source_id).title \o " " \o SourceOf(c.source_id).url \o " "
            \o OrEmpty(c.section) \o " " \o c.text : c \in ChunkRows}

\* A table computed once: the function f listed point by point.
Memo(f) == f @@ <<>>

\* normalizeHebrewText on the texts of the model, computed once.
NormalizedTexts ==
  Memo([t \in KnownTexts |-> normalizeHebrewText(t)])

\* A call of normalizeHebrewText, looked up: the texts that the handler
\* normalizes are those of the table.
Norm(tables, input) == tables.norm[input]

\* ------------------------------------------------------------------------
\* Numbers read from text.  A number is kept as the string JavaScript prints
\* for it (Number("016") prints "16"), so that equal numbers are equal strings.
\* ------------------------------------------------------------------------

RECURSIVE StripLeadingZeros(_)
StripLeadingZeros(s) ==
  IF Len(s) > 1 /\ Ch(s, 1) = "0" /\ IsDigit(Ch(s, 2))
  THEN StripLeadingZeros(SubSeq(s, 2, Len(s))) ELSE s

RECURSIVE StripTrailingZeros(_)
StripTrailingZeros(s) ==
  IF Len(s) > 0 /\ Ch(s, Len(s)) = "0"
  THEN StripTrailingZeros(SubSeq(s, 1, Len(s) - 1)) ELSE s

\* String(Number(s)) for a numeral s matching \d+(\.\d+)?
NumberStr(s) ==
  With(SkipDigits(s, 1), LAMBDA e :
  With(StripLeadingZeros(SubSeq(s, 1, e - 1)), LAMBDA int :
  With(IF e <= Len(s) THEN StripTrailingZeros(SubSeq(s, e + 1, Len(s))) ELSE "", LAMBDA frac :
     IF frac = "" THEN int ELSE int \o "." \o frac)))

DigitVal(c) ==
  CASE c = "0" -> 0 [] c = "1" -> 1 [] c = "2" -> 2 [] c = "3" -> 3 [] c = "4" -> 4
    [] c = "5" -> 5 [] c = "6" -> 6 [] c = "7" -> 7 [] c = "8" -> 8 [] c = "9" -> 9

RECURSIVE NatOf(_, _)
\* The value of the digit string s, digits 1..n.
NatOf(s, n) == IF n = 0 THEN 0 ELSE 10 * NatOf(s, n - 1) + DigitVal(Ch(s, n))

\* The integer part of a canonical number string, and whether a fraction follows.
IntPart(num) == NatOf(num, SkipDigits(num, 1) - 1)
HasFraction(num) == SkipDigits(num, 1) <= Len(num)

\* ------------------------------------------------------------------------
\* Values shared by the handler
\* ------------------------------------------------------------------------

\* a ... /p1|p2/ test helpers: b after a, white space between (a\s*b).
HasGap(s, a, b) == \E i \in 1..Len(s) : At(s, i, a) /\ At(s, SkipSpaces(s, i + Len(a)), b)

\* ------------------------------------------------------------------------
\* PARSERS FOR USER ANSWERS
\* ------------------------------------------------------------------------

parseOhms(text) ==
  With(ToLower(ReplaceCh(text, ",", ".")), LAMBDA s :
  With(FirstNumeral(s), LAMBDA m :
     IF m = "" THEN Null
     ELSE IF ~(Has(s, "אום") \/ Has(s, "ω") \/ Has(s, "ohm") \/ Has(s, "אוהם")) THEN Null
     ELSE NumberStr(m)))

MaxAmps == 1000

parseAmpsOnly(tables, text) ==
  With(ReplaceCh(Trim(Norm(tables, text)), ",", "."), LAMBDA s :
  With(NumberStr(s), LAMBDA n :
     IF ~IsNumeral(s) THEN Null
     ELSE IF (IntPart(n) = 0 /\ ~HasFraction(n))
             \/ IntPart(n) > MaxAmps \/ (IntPart(n) = MaxAmps /\ HasFraction(n))
          THEN Null
     ELSE n))

parseMeasurementType(tables, text) ==
  With(ToLower(Norm(tables, text)), LAMBDA t :
     IF HasAny(t, {"ra", "r_a", "אלקטרוד", "אלקטרודה"}) THEN "RA"
     ELSE IF HasAny(t, {"zs", "לולאת תקלה", "לולאה"}) THEN "ZS"
     ELSE IF HasAny(t, {"pe", "רציפות"}) THEN "PE"
     ELSE Null)

parseSystem(tables, text) ==
  With(ToLower(Norm(tables, text)), LAMBDA t :
     IF HasW(t, "tt") THEN "TT"
     ELSE IF HasW(t, "tn") THEN "TN"
     ELSE IF HasAny(t, {"לא יודע", "לא ידוע", "unknown"}) THEN "UNKNOWN"
     ELSE Null)

parseRcd(tables, text) ==
  With(ToLower(Norm(tables, text)), LAMBDA t :
     IF Has(t, "30") THEN "30"
     ELSE IF Has(t, "100") THEN "100"
     ELSE IF Has(t, "300") THEN "300"
     ELSE IF HasAny(t, {"אין", "ללא"}) THEN Null
     ELSE Undef)

\* A match of ([bcd])\s*(\d+) at position i of t: the digits end (exclusive), 0 if none.
CurveEnd(t, i) ==
  With(SkipSpaces(t, i + 1), LAMBDA d :
  With(SkipDigits(t, d), LAMBDA e :
     IF Ch(t, i) \in {"b", "c", "d"} /\ e > d THEN e ELSE 0))

\* The device of a match at position i: curve letter in upper case and rating.
CurveAt(t, i) ==
  With(SkipSpaces(t, i + 1), LAMBDA d :
     (CASE Ch(t, i) = "b" -> "B" [] Ch(t, i) = "c" -> "C" [] Ch(t, i) = "d" -> "D")
       \o SubSeq(t, d, SkipDigits(t, d) - 1))

\* /\b([bcd])\s*(\d+)\b/i
CurveMatchesW(t) ==
  {i \in 1..Len(t) : CurveEnd(t, i) > 0 /\ Bnd(t, i) /\ Bnd(t, CurveEnd(t, i))}

\* /מאמ"?ת\s*([bcd])\s*(\d+)/i : the positions of the curve letter.
CurveMatchesMcb(t) ==
  {i \in 1..Len(t) : CurveEnd(t, i) > 0 /\
     \E k \in 1..Len(t) : \E w \in {"מאמ\"ת", "מאמת"} :
        At(t, k, w) /\ SkipSpaces(t, k + Len(w)) = i}

\* /w\s*(\d+)/i : the positions of the first digit.
RatingMatches(t, w) ==
  {d \in 1..Len(t) : IsDigit(Ch(t, d)) /\
     \E k \in 1..Len(t) : At(t, k, w) /\ SkipSpaces(t, k + Len(w)) = d}

Min(S) == CHOOSE x \in S : \A y \in S : x <= y

parseProtection(tables, text) ==
  With(ToLower(Norm(tables, text)), LAMBDA t :
  With(CurveMatchesW(t), LAMBDA m1 :
  With(CurveMatchesMcb(t), LAMBDA m2 :
  With(RatingMatches(t, "נתיך"), LAMBDA m3a :
  With(RatingMatches(t, "fuse"), LAMBDA m3b :
  With(IF m3a # {} THEN Min(m3a) ELSE Min(m3b), LAMBDA m3 :
  With(parseAmpsOnly(tables, t), LAMBDA amps :
     IF m1 # {} THEN CurveAt(t, Min(m1))
     ELSE IF m2 # {} THEN CurveAt(t, Min(m2))
     ELSE IF m3a # {} \/ m3b # {} THEN "נתיך " \o SubSeq(t, m3, SkipDigits(t, m3) - 1)
     ELSE IF amps # Null THEN "?" \o amps
     ELSE Null)))))))

parseVoltage(tables, text) ==
  With(ToLower(Norm(tables, text)), LAMBDA t :
     IF HasAny(t, {"230", "220", "single"}) \/ HasGap(t, "חד", "פאזי") THEN "230"
     ELSE IF HasAny(t, {"400", "380", "three"}) \/ HasGap(t, "תלת", "פאזי")
             \/ HasGap(t, "3", "phase") THEN "400"
     ELSE Null)

\* /^\?\d+$/ : a protection value that holds a rating only.
IsAmpsOnlyProtection(p) == Len(p) >= 2 /\ Ch(p, 1) = "?" /\ AllDigits(SubSeq(p, 2, Len(p)))

\* ------------------------------------------------------------------------
\* The parsers on the user messages of the model
\* ------------------------------------------------------------------------

\* q = (question || "").trim() of the handler, for the questions that pass
\* the missing-question check.
UserTexts == {Trim(question) : question \in Questions} \ {""}

\* The parsers' results on the user messages, computed once.
ParsedUserText(tables) ==
  Memo([t \in UserTexts |->
     [ohms |-> parseOhms(t),
      measurementType |-> parseMeasurementType(tables, t),
      system |-> parseSystem(tables, t),
      rcd |-> parseRcd(tables, t),
      protection |-> parseProtection(tables, t),
      voltage |-> parseVoltage(tables, t)]])

\* ------------------------------------------------------------------------
\* Chat state and answers (types/chat.ts, types/answer.ts)
\* ------------------------------------------------------------------------

\* slots: {} of a fresh chat state.
EmptySlots ==
  [measurement_type |-> Undef, value_ohm |-> Undef, system |-> Undef,
   rcd_ma |-> Undef, protection |-> Undef, voltage |-> Undef]

\* An Answer; steps, cautions and requiredInfo are display lists that no
\* decision of the handler reads, and are left out.  An answer without a
\* sources field (the engine's answers) has the empty list.  In the texts a long dash
\* of the source is written "-", the arrow "->" and the multiplication sign "x".
MkAnswer(kind, title, bottomLine, followUpQuestion, confidence) ==
  [kind |-> kind, title |-> title, bottomLine |-> bottomLine,
   followUpQuestion |-> followUpQuestion, sources |-> <<>>, confidence |-> confidence]

\* The null of "Answer | null".
NullAnswer == MkAnswer(Null, "", "", Undef, Undef)

IsNullAnswer(a) == a.kind = Null

\* ------------------------------------------------------------------------
\* SLOT FILLING LOGIC
\* ------------------------------------------------------------------------

\* The result of applyPendingAnswer: the state as mutated, and the boolean returned.
applyPendingAnswer(tables, state, userText) ==
  With(tables.parsed[Trim(userText)], LAMBDA t :
  With(t.ohms, LAMBDA ohm :
  With(IF ohm # Null THEN [state EXCEPT !.slots.value_ohm = ohm] ELSE state, LAMBDA s0 :
  With(t.measurementType, LAMBDA mt :
  With(t.system, LAMBDA sys :
  With(t.rcd, LAMBDA rcd :
  With(t.protection, LAMBDA prot :
  With(t.voltage, LAMBDA volt :
     IF Falsy(s0.pendingSlot) THEN [state |-> s0, applied |-> FALSE]
     ELSE IF s0.pendingSlot = "measurement_type" /\ mt # Null
          THEN [state |-> [s0 EXCEPT !.slots.measurement_type = mt, !.pendingSlot = Undef],
                applied |-> TRUE]
     ELSE IF s0.pendingSlot = "system" /\ sys # Null
          THEN [state |-> [s0 EXCEPT !.slots.system = sys, !.pendingSlot = Undef],
                applied |-> TRUE]
     ELSE IF s0.pendingSlot = "rcd" /\ rcd # Undef
          THEN [state |-> [s0 EXCEPT !.slots.rcd_ma = rcd, !.pendingSlot = Undef],
                applied |-> TRUE]
     ELSE IF s0.pendingSlot = "protection" /\ prot # Null
          THEN [state |-> [s0 EXCEPT !.slots.protection = prot, !.pendingSlot = Undef],
                applied |-> TRUE]
     ELSE IF s0.pendingSlot = "voltage" /\ volt # Null
          THEN [state |-> [s0 EXCEPT !.slots.voltage = volt, !.pendingSlot = Undef],
                applied |-> TRUE]
     ELSE [state |-> s0, applied |-> FALSE]))))))))

EarthingTitle == "הארקה / לולאת תקלה"

\* nextEarthingQuestion with the question for the residual-current device
\* asked for every type of measurement.
RcdForEveryMeasurement(state) ==
  With(state.slots, LAMBDA slots :
     IF Falsy(slots.measurement_type)
     THEN [state |-> [state EXCEPT !.pendingSlot = "measurement_type"],
           answer |-> MkAnswer("flow", EarthingTitle,
                        "כדי לקבוע 'ערך הארקה תקין' צריך לדעת מה בדיוק נמדד.",
                        "מה נמדד: RA (אלקטרודה), Zs (לולאת תקלה) או רציפות PE?", "low")]
     ELSE IF Falsy(slots.system) \/ slots.system = "UNKNOWN"
     THEN [state |-> [state EXCEPT !.pendingSlot = "system"],
           answer |-> MkAnswer("flow", EarthingTitle,
                        "כדי לקבוע תקינות צריך לדעת שיטת איפוס (TT/TN).",
                        "האם זו רשת TT או TN? (אם לא יודע - כתוב 'לא יודע')", "low")]
     ELSE IF slots.system = "TT"
             /\ slots.rcd_ma \in {Null, Undef}
     THEN [state |-> [state EXCEPT !.pendingSlot = "rcd"],
           answer |-> MkAnswer("flow", EarthingTitle,
                        "ב-TT הערכת תקינות RA תלויה בזרם הפחת (IΔn).",
                        "איזה פחת מותקן? 30mA / 100mA / 300mA / אין", "low")]
     ELSE [state |-> [state EXCEPT !.pendingSlot = Undef], answer |-> NullAnswer])

\* The result of nextEarthingQuestion: the state as mutated, and the Answer or null.
nextEarthingQuestion(state) ==
  With(state.slots, LAMBDA slots :
     IF Falsy(slots.measurement_type)
     THEN [state |-> [state EXCEPT !.pendingSlot = "measurement_type"],
           answer |-> MkAnswer("flow", EarthingTitle,
                        "כדי לקבוע 'ערך הארקה תקין' צריך לדעת מה בדיוק נמדד.",
                        "מה נמדד: RA (אלקטרודה), Zs (לולאת תקלה) או רציפות PE?", "low")]
     ELSE IF Falsy(slots.system) \/ slots.system = "UNKNOWN"
     THEN [state |-> [state EXCEPT !.pendingSlot = "system"],
           answer |-> MkAnswer("flow", EarthingTitle,
                        "כדי לקבוע תקינות צריך לדעת שיטת איפוס (TT/TN).",
                        "האם זו רשת TT או TN? (אם לא יודע - כתוב 'לא יודע')", "low")]
     ELSE IF slots.measurement_type = "RA" /\ slots.system = "TT"
             /\ slots.rcd_ma \in {Null, Undef}
     THEN [state |-> [state EXCEPT !.pendingSlot = "rcd"],
           answer |-> MkAnswer("flow", EarthingTitle,
                        "ב-TT הערכת תקינות RA תלויה בזרם הפחת (IΔn).",
                        "איזה פחת מותקן? 30mA / 100mA / 300mA / אין", "low")]
     ELSE [state |-> [state EXCEPT !.pendingSlot = Undef], answer |-> NullAnswer])

LoopFaultTitle == "לולאת תקלה (Zs)"

\* The result of nextLoopFaultQuestion: the state as mutated, and the Answer or null.
nextLoopFaultQuestion(state) ==
  With(state.slots, LAMBDA slots :
  With(NumberStr(SubSeq(slots.protection, 2, Len(slots.protection))), LAMBDA amps :
     IF Falsy(slots.system) \/ slots.system = "UNKNOWN"
     THEN [state |-> [state EXCEPT !.pendingSlot = "system"],
           answer |-> MkAnswer("flow", LoopFaultTitle,
                        "כדי לחשב/לבדוק Zs צריך לדעת שיטת איפוס.",
                        "זה TT או TN?", "low")]
     ELSE IF slots.protection # Undef /\ IsAmpsOnlyProtection(slots.protection)
     THEN [state |-> [state EXCEPT !.pendingSlot = "protection"],
           answer |-> MkAnswer("flow", LoopFaultTitle,
                        "קיבלתי " \o amps \o "A. חסר רק סוג ההגנה כדי להמשיך.",
                        "זה מאמ\"ת B" \o amps \o "/C" \o amps \o "/D" \o amps
                          \o " או נתיך " \o amps \o "? אם לא יודע-בדירות לרוב זה C.",
                        "high")]
     ELSE IF Falsy(slots.protection)
     THEN [state |-> [state EXCEPT !.pendingSlot = "protection"],
           answer |-> MkAnswer("flow", LoopFaultTitle,
                        "כדי לחשב Zs מקסימלי צריך לדעת סוג ההגנה והזרם הנקוב.",
                        "איזה מאמ\"ת? (B/C/D והזרם, למשל C16) או נתיך (למשל נתיך 16)", "low")]
     ELSE IF Falsy(slots.voltage)
     THEN [state |-> [state EXCEPT !.pendingSlot = "voltage"],
           answer |-> MkAnswer("flow", LoopFaultTitle,
                        "כדי לחשב Zs מקסימלי צריך לדעת מתח רשת.",
                        "230V או 400V?", "low")]
     ELSE [state |-> [state EXCEPT !.pendingSlot = Undef], answer |-> NullAnswer]))

\* ------------------------------------------------------------------------
\* COMMAND HANDLER FOR SHORT WORDS
\* ------------------------------------------------------------------------

MaxShortCommandLength == 15

detectShortCommand(tables, question) ==
  With(Trim(Norm(tables, question)), LAMBDA shortCmd :
  With(ToLower(shortCmd), LAMBDA c :
     IF Len(shortCmd) > MaxShortCommandLength THEN Null
     ELSE IF c \in {"חישוב", "תחשב", "תחשבי", "calculate", "calc"} THEN "calc"
     ELSE IF c \in {"מקור", "ציטוט", "סעיף", "source", "cite"} THEN "source"
     ELSE IF c \in {"הסבר", "תסביר", "explain"} THEN "explain"
     ELSE IF c \in {"אוקיי", "סבבה", "ok", "יאללה", "continue", "תמשיך", "אז", "אז?"}
          THEN "continue"
     ELSE Null))

CommandFollowUp == "רוצה מקור מהתקנות?"

\* The result of handleShortCommand: the state as mutated, and the Answer or null.
handleShortCommand(cmd, state, question) ==
  With(state.slots, LAMBDA s :
  With(nextLoopFaultQuestion(state), LAMBDA nl :
  With(nextEarthingQuestion(state), LAMBDA ne :
  LET WithLine(r, prefix) ==
        [state |-> r.state,
         answer |-> [r.answer EXCEPT !.bottomLine = prefix \o r.answer.bottomLine]]
  IN
  LET Same(a) == [state |-> state, answer |-> a]
  IN
     IF cmd = Null \/ Falsy(state.topic) THEN Same(NullAnswer)
     ELSE IF state.topic = "loop_fault" /\ cmd = "calc"
     THEN IF ~IsNullAnswer(nl.answer) THEN WithLine(nl, "מעולה, נחשב Zs מקסימלי. ")
          ELSE [state |-> nl.state,
                answer |-> MkAnswer("flow", "חישוב Zs מקסימלי",
                  "לפי הנתונים: " \o s.system \o ", " \o s.protection \o ", "
                     \o s.voltage \o "V.",
                  CommandFollowUp, "medium")]
     ELSE IF state.topic = "loop_fault" /\ cmd = "source"
     THEN Same(MkAnswer("rag", "מקור - לולאת תקלה",
                  "מחפש מקורות בתקנות על Zs (לולאת תקלה)...",
                  "רוצה חישוב או רק מקור?", "low"))
     ELSE IF state.topic = "loop_fault" /\ cmd = "explain"
     THEN Same(MkAnswer("flow", "הסבר - לולאת תקלה",
                  "Zs (לולאת תקלה) היא האימפדנס של מסלול התקלה (פאזה->תקלה->PE/PEN/אדמה->מקור), שמשפיע על זרם התקלה וזמן הניתוק של ההגנה.",
                  "רוצה חישוב או מקור מהתקנות?", "high"))
     ELSE IF state.topic = "loop_fault" /\ cmd = "continue"
     THEN IF ~IsNullAnswer(nl.answer) THEN nl
          ELSE [state |-> nl.state,
                answer |-> MkAnswer("flow", "לולאת תקלה",
                  "מה תרצה לעשות? חישוב, מקור, או הסבר נוסף?",
                  "כתוב: חישוב / מקור / הסבר", "high")]
     ELSE IF state.topic = "earthing" /\ cmd = "calc"
     THEN IF ~IsNullAnswer(ne.answer) THEN WithLine(ne, "מעולה, נחשב. ")
          ELSE [state |-> ne.state,
                answer |-> MkAnswer("flow", "חישוב ערך הארקה",
                  "לפי הנתונים: " \o s.measurement_type \o ", " \o s.system \o ", "
                     \o (IF Falsy(s.value_ohm) \/ s.value_ohm = "0"
                         THEN "לא נמדד" ELSE s.value_ohm \o "Ω") \o ".",
                  CommandFollowUp, "medium")]
     ELSE IF state.topic = "earthing" /\ cmd = "source"
     THEN Same(MkAnswer("rag", "מקור - הארקה",
                  "מחפש מקורות בתקנות על ערכי הארקה...",
                  "רוצה חישוב או רק מקור?", "low"))
     ELSE IF state.topic = "earthing" /\ cmd = "explain"
     THEN Same(MkAnswer("flow", "הסבר - הארקה",
                  "ערך הארקה תלוי בסוג המדידה (RA/Zs/PE) ובשיטת האיפוס (TT/TN).",
                  "רוצה חישוב או מקור מהתקנות?", "high"))
     ELSE IF state.topic = "earthing" /\ cmd = "continue"
     THEN IF ~IsNullAnswer(ne.answer) THEN ne
          ELSE [state |-> ne.state,
                answer |-> MkAnswer("flow", "הארקה",
                  "מה תרצה לעשות? חישוב, מקור, או הסבר נוסף?",
                  "כתוב: חישוב / מקור / הסבר", "high")]
     ELSE Same(NullAnswer))))

\* ------------------------------------------------------------------------
\* Chat state of the request, topic detection
\* ------------------------------------------------------------------------

\* A request body without chatState, as a record: every field undefined, the
\* slots those of {}.  normalizeChatState gives it the same state as it gives
\* to no object at all.
NoChatState ==
  [topic |-> Undef, stage |-> Undef, pendingSlot |-> Undef, slots |-> EmptySlots,
   pendingQuestion |-> Undef, lastSummary |-> Undef]

\* normalizeChatState: raw is the chatState of the request body.
normalizeChatState(raw) ==
  [topic |-> IF Falsy(raw.topic) THEN "general" ELSE raw.topic,
   stage |-> IF Falsy(raw.stage) THEN "collecting" ELSE raw.stage,
   pendingSlot |-> IF Falsy(raw.pendingSlot) THEN Undef ELSE raw.pendingSlot,
   slots |-> raw.slots,
   pendingQuestion |-> raw.pendingQuestion,
   lastSummary |-> raw.lastSummary]

topicFromIssueType(tables, issueType) ==
  With(ToLower(Norm(tables, issueType)), LAMBDA t :
     IF t = "" THEN Null
     ELSE IF Has(t, "לולאת תקלה") THEN "loop_fault"
     ELSE IF Has(t, "הארקה") THEN "earthing"
     ELSE IF HasAny(t, {"פחת", "rcd"}) THEN "rcd"
     ELSE IF HasAny(t, {"חימום כבלים", "כבל", "עומס"}) THEN "cable"
     ELSE IF HasAny(t, {"לוח חשמל", "פאזה"}) THEN "general"
     ELSE Null)

\* /(לולאת תקלה|\bzs\b|fault loop)/i on a lower-cased text.
NamesLoopFault(s) == Has(s, "לולאת תקלה") \/ HasW(s, "zs") \/ Has(s, "fault loop")

detectChatTopic(tables, question, current) ==
  With(ToLower(Norm(tables, question)), LAMBDA q :
     IF NamesLoopFault(q) THEN "loop_fault"
     ELSE IF HasAny(q, {"הארקה", "ra", "r_a", "אלקטרודה", "השוואת פוטנציאלים"}) THEN "earthing"
     ELSE IF HasAny(q, {"פחת", "rcd", "fid", "ממסר"}) THEN "rcd"
     ELSE IF HasAny(q, {"כבל", "חתך", "נפילת מתח", "vd%", "זרם מותר"}) THEN "cable"
     ELSE IF HasAny(q, {"אין חשמל", "אין מתח", "לא מגיע מתח", "נפל"}) THEN "general"
     ELSE IF Falsy(current) THEN "general" ELSE current)

\* TECHNICAL_QUERY_TERMS.test(q)
TECHNICAL_QUERY_TERMS(q) ==
  HasAny(ToLower(q),
    {"zs", "ra", "פחת", "אמפר", "כבל", "חתך", "נפילת מתח", "מאמ\"ת", "מאמת", "נתיך",
     "tt", "tn", "אוהם", "ω", "rcd", "לולאת תקלה", "הארקה", "מפסק"})

MaxShortFollowupLength == 25

isShortFollowupQuestion(tables, question) ==
  With(Trim(Norm(tables, question)), LAMBDA q :
     Len(q) <= MaxShortFollowupLength /\ ~TECHNICAL_QUERY_TERMS(q))

\* ------------------------------------------------------------------------
\* lib/triage.ts, lib/engine.ts, lib/calculators, lib/flows
\* ------------------------------------------------------------------------

triage(q, modeHint) ==
  With(ToLower(q), LAMBDA s :
  With(HasAny(s, {"נפילת מתח", "voltage drop", "vd%", "אחוז נפילה"}), LAMBDA vdrop :
  With(HasAny(s, {"kw", "kva", "הספק", "תלת", "חד", "cos"}), LAMBDA power :
  With(HasAny(s, {"כבל", "חתך", "mm2", "mm²", "זרם מותר"}), LAMBDA cable :
  With(HasAny(s, {"פחת", "rcd", "fid", "ממסר"}), LAMBDA rcd :
  With(HasAny(s, {"אין חשמל", "אין מתח", "לא מגיע מתח", "נפל"}), LAMBDA nopower :
  With(HasAny(s, {"תקן", "תקנות", "חוק", "ת\"י", "israel standard"}), LAMBDA code :
     IF modeHint = "calc" /\ vdrop THEN "CALC_VDROP"
     ELSE IF modeHint = "calc" /\ power THEN "CALC_POWER_CURRENT"
     ELSE IF modeHint = "calc" /\ cable THEN "CALC_SIMPLE_CABLE_HINT"
     ELSE IF modeHint = "flow" /\ rcd THEN "FLOW_RCD_TRIP"
     ELSE IF modeHint = "flow" /\ nopower THEN "FLOW_NO_POWER"
     ELSE IF vdrop THEN "CALC_VDROP"
     ELSE IF power THEN "CALC_POWER_CURRENT"
     ELSE IF rcd THEN "FLOW_RCD_TRIP"
     ELSE IF nopower THEN "FLOW_NO_POWER"
     ELSE IF code THEN "RAG_CODE"
     ELSE "RAG_GENERAL")))))))

RECURSIVE NatToStr(_)
NatToStr(n) ==
  IF n < 10 THEN SubSeq("0123456789", n + 1, n + 1)
  ELSE NatToStr(n \div 10) \o SubSeq("0123456789", (n % 10) + 1, (n % 10) + 1)

\* String(round(x, 2)) for x given in hundredths.
Round2Str(hundredths) ==
  With(NatToStr(hundredths \div 100), LAMBDA int :
  With(hundredths % 100, LAMBDA f :
     IF f = 0 THEN int
     ELSE IF f % 10 = 0 THEN int \o "." \o NatToStr(f \div 10)
     ELSE IF f < 10 THEN int \o ".0" \o NatToStr(f)
     ELSE int \o "." \o NatToStr(f)))

\* Math.round(num / den * 100) for naturals num, den > 0.
RoundedHundredths(num, den) == (200 * num + den) \div (2 * den)

\* calcPowerCurrent for a single-phase input given in kVA (cosPhi and the
\* efficiency do not enter, and no square root is taken).
calcPowerCurrent(i) ==
  With(i.value * 1000, LAMBDA VA :
     MkAnswer("calc", "חישוב זרם מהספק",
        "הזרם המשוער: " \o Round2Str(RoundedHundredths(VA, i.voltageV)) \o "A",
        Undef, "high"))

\* rho of copper in 1/10000 ohm mm2/m (0.0175).
RhoCu == 175

\* calcVoltageDrop for a single-phase copper input.
calcVoltageDrop(i) ==
  With(RhoCu * i.lengthM * i.currentA * 2, LAMBDA dVnum :
  With(10000 * i.areaMm2, LAMBDA dVden :
     MkAnswer("calc", "חישוב נפילת מתח",
        "נפילת מתח משוערת: " \o Round2Str(RoundedHundredths(dVnum, dVden)) \o "V ("
          \o Round2Str(RoundedHundredths(100 * dVnum, dVden * i.voltageV)) \o "%)",
        Undef, "medium")))

flowNoPower(i) ==
  IF Falsy(i.scope)
  THEN MkAnswer("flow", "אבחון אין מתח", "צריך להבין קודם היקף תקלה.",
          "אין חשמל בכל האתר, באזור מסוים או בשקע אחד?", "low")
  ELSE MkAnswer("flow", "אבחון אין מתח",
          "אבחון לפי היקף התקלה: מקור הזנה -> לוח -> מעגל -> נקודת קצה.",
          Undef, "medium")

flowRcdTrip(i) ==
  IF Falsy(i.when) \/ Falsy(i.affects)
  THEN MkAnswer("flow", "אבחון נפילת פחת", "צריך 2 פרטים כדי להתחיל אבחון מדויק.",
          "ענה בקצרה: (1) מתי הוא נופל, (2) כל הבית או מעגל אחד?", "low")
  ELSE MkAnswer("flow", "אבחון נפילת פחת",
          "בודדים מעגל/עומס דולף, מאמתים במדידה, ואז מתקנים.",
          Undef, "medium")

\* flow || {} of runEngine: the empty flow input.
EmptyFlow == [scope |-> Undef, when |-> Undef, affects |-> Undef,
              measuredType |-> Undef, systemType |-> Undef]

\* runEngine(p).answer, NullAnswer when the route has no engine.
runEngine(p) ==
  With(triage(p.question, IF p.modeHint = "auto" THEN Undef ELSE p.modeHint), LAMBDA route :
  With(IF p.flow = Undef THEN EmptyFlow ELSE p.flow, LAMBDA flow :
     IF route = "CALC_POWER_CURRENT"
     THEN IF p.calc = Undef
          THEN MkAnswer("calc", "חישוב זרם מהספק", "כדי לחשב זרם דרושים נתוני כניסה.",
                  "שלח לי פאזה, מתח, הספק ויחידות כדי שאחזיר זרם מיידית.", "low")
          ELSE calcPowerCurrent(p.calc)
     ELSE IF route = "CALC_VDROP"
     THEN IF p.calc = Undef
          THEN MkAnswer("calc", "חישוב נפילת מתח", "כדי לחשב נפילת מתח דרושים נתוני כניסה.",
                  "שלח לי אורך, זרם, חתך, חומר ומתח כדי שאחשב נפילת מתח.", "low")
          ELSE calcVoltageDrop(p.calc)
     ELSE IF route = "FLOW_RCD_TRIP" THEN flowRcdTrip(flow)
     ELSE IF route = "FLOW_NO_POWER" THEN flowNoPower(flow)
     ELSE NullAnswer))

\* ------------------------------------------------------------------------
\* Question classification of the retrieval path
\* ------------------------------------------------------------------------

\* replace(/["')\]}...]+$/g, "") : the dangling tail of quotes and brackets
\* (the back quote and the typographic quotes occur in no text of the model).
RECURSIVE StripQuoteTail(_)
StripQuoteTail(s) ==
  IF Len(s) > 0 /\ Ch(s, Len(s)) \in {"\"", "'", ")", "]", "}"}
  THEN StripQuoteTail(SubSeq(s, 1, Len(s) - 1)) ELSE s

\* replace(/[!?.,;:]{2,}/g, m => m.slice(0, 1)) : a run of punctuation keeps its first.
CollapsePunct(s) ==
  With({"!", "?", ".", ",", ";", ":"}, LAMBDA P :
     IF s = "" THEN "" ELSE
     Concat([i \in 1..Len(s) |->
               IF Ch(s, i) \in P /\ Ch(s, i - 1) \in P THEN "" ELSE Ch(s, i)]))

sanitizeUserQuestion(tables, input) ==
  CollapsePunct(Trim(StripQuoteTail(Norm(tables, input))))

looksLikeEarthingOhmsQuestion(q) ==
  With(CollapseSpaces(q), LAMBDA s :
     Has(s, "הארק") /\ (HasAny(ToLower(s), {"אוהם", "ω", "ohm"}) \/ Has(s, "התנגדות")))

isEarthingValueQuestion(tables, q) ==
  With(ToLower(Norm(tables, q)), LAMBDA s :
     Has(s, "הארק") /\
     HasAny(s, {"ערך", "כמה", "תקין", "מותר", "אוהם", "ω", "ohm", "התנגדות"}))

isLoopFaultQuestion(tables, q) == NamesLoopFault(ToLower(Norm(tables, q)))

MaxGlossaryLength == 20

isGlossaryLoopFaultQuestion(tables, q) ==
  With(Trim(Norm(tables, q)), LAMBDA s :
  With(Trim(ReplaceCh(ReplaceCh(ReplaceCh(s, "?", ""), ".", ""), "!", "")), LAMBDA noPunct :
  With(ToLower(noPunct), LAMBDA l :
     Len(noPunct) <= MaxGlossaryLength /\ (Has(l, "לולאת תקלה") \/ HasW(l, "zs")))))

hasEarthingMeasurementInfo(tables, question, flowIn) ==
  With(ToLower(Norm(tables, question)), LAMBDA q :
  With(IF flowIn = Undef THEN EmptyFlow ELSE flowIn, LAMBDA flow :
  With(IF Falsy(flow.measuredType) THEN "" ELSE ToLower(flow.measuredType), LAMBDA measured :
  With(IF Falsy(flow.systemType) THEN "" ELSE ToLower(flow.systemType), LAMBDA system :
  With(
        \/ \E w \in {"ra", "r_a", "zs", "pe"} : HasW(measured, w)
        \/ HasAny(q, {"ra", "r_a", "zs", "אלקטרוד"}) \/ HasGap(q, "רציפות", "pe"), LAMBDA hasMeasured :
  With(
        \/ HasW(system, "tt") \/ HasW(system, "tn")
        \/ HasW(q, "tt") \/ HasW(q, "tn"), LAMBDA hasSystem :
     hasMeasured /\ hasSystem))))))

\* ------------------------------------------------------------------------
\* Evidence predicates of the gate
\* ------------------------------------------------------------------------

\* /\d+(\.\d+)?\s*(ω|ohm|ma|%|שנ|sec|v)\b/i on a lower-cased text: a unit that
\* ends at a word boundary, with a digit before it, white space allowed between.
NumberWithUnit(s) ==
  \E u \in {"ω", "ohm", "ma", "%", "שנ", "sec", "v"} :
    \E e \in 1..Len(s) :
      At(s, e, u) /\ Bnd(s, e + Len(u)) /\ IsDigit(Ch(s, TrimRightPos(s, e - 1)))

scoreChunkForEarthingValueQuestion(tables, question, text) ==
  With(ToLower(Norm(tables, question)), LAMBDA q :
  With(ToLower(Norm(tables, text)), LAMBDA s :
  With(    IF Has(q, "הארק")
           THEN (IF HasAny(s, {"הארק", "מוליך הארקה", "השוואת פוטנציאלים", "pe"})
                 THEN 2 ELSE -2)
           ELSE 0, LAMBDA a :
  With(    IF HasAny(q, {"אוהם", "ω", "ohm", "התנגדות"})
           THEN (IF HasAny(s, {"אוהם", "ω", "ohm", "התנגדות", "ra", "r_a", "zs"})
                 THEN 5 ELSE -5)
           ELSE 0, LAMBDA b :
  With(    IF HasAny(s, {"ra", "r_a", "zs", "tt", "tn", "iδn", "מפסק מגן", "פחת",
                         "לולאת תקלה"}) THEN 3 ELSE 0, LAMBDA c :
  With(    IF HasAny(s, {"סוג ציוד", "חיים מבודדים", "בידוד בסיסי", "בידוד כפול"})
           THEN -3 ELSE 0, LAMBDA d :
  With(IF NumberWithUnit(s) THEN 2 ELSE 0, LAMBDA e :
     a + b + c + d + e)))))))

\* needsNumeric of numericEvidenceExists: the question asks for a value.
NeedsNumeric(question) ==
  HasAny(ToLower(question), {"ערך", "כמה", "תקין", "מותר", "לא יעלה", "לכל היותר",
                             "אוהם", "ω", "ohm", "%", "ma"})

numericEvidenceExists(question, allSourcesText) ==
  With(ToLower(allSourcesText), LAMBDA t :
     IF ~NeedsNumeric(question) THEN TRUE
     ELSE \/ NumberWithUnit(t)
          \/ Has(t, "לא יעלה על") \/ Has(t, "לכל היותר") \/ HasWEnd(t, "עד"))

earthingTermEvidenceExists(allSourcesText) ==
  With(ToLower(allSourcesText), LAMBDA t :
     \/ HasAny(t, {"אוהם", "ω", "ohm", "התנגדות", "r_a", "לולאת תקלה", "מפסק מגן",
                   "פחת", "iδn"})
     \/ HasWEnd(t, "ra") \/ HasWEnd(t, "zs") \/ HasWEnd(t, "tt") \/ HasWEnd(t, "tn"))

loopFaultEvidenceExists(allSourcesText) ==
  With(ToLower(allSourcesText), LAMBDA t :
     \/ HasAny(t, {"לולאת תקלה", "fault loop", "impedance", "אימפדנס", "התנגדות לולאה"})
     \/ HasW(t, "zs"))

\* The tier of a document type: 0 binding regulation or safety rule, 1 statute,
\* 2 anything else.
legalDocTier(docTypeRaw) ==
  With(ToLower(OrEmpty(docTypeRaw)), LAMBDA docType :
     IF StartsWith(docType, "regulation_") \/ StartsWith(docType, "safety_") THEN 0
     ELSE IF StartsWith(docType, "law_") THEN 1
     ELSE 2)

\* sourcesContainAny with the four expressions of its one call:
\* /אוהם|Ω|ohm/i, /התנגדות/i, /R_A|RA\b/i, /Zs\b|לולאת תקלה/i.
sourcesContainAny(sourcesText) ==
  With(ToLower(sourcesText), LAMBDA t :
     \/ HasAny(t, {"אוהם", "ω", "ohm", "התנגדות", "r_a", "לולאת תקלה"})
     \/ HasWEnd(t, "ra") \/ HasWEnd(t, "zs"))

\* replace(/^[ובכלמהש](?=[֐-׿]{3,})/, "") and the length rules around it.
stripHebrewPrefix(token) ==
  With(Trim(token), LAMBDA t :
  With(
        IF Ch(t, 1) \in {"ו", "ב", "כ", "ל", "מ", "ה", "ש"}
           /\ IsHeb(Ch(t, 2)) /\ IsHeb(Ch(t, 3)) /\ IsHeb(Ch(t, 4))
        THEN SubSeq(t, 2, Len(t)) ELSE t, LAMBDA stripped :
     IF Len(t) < 4 THEN t
     ELSE IF Len(stripped) >= 3 THEN stripped ELSE t))

RECURSIVE MatchStarts(_, _, _)
\* The starts of the matches of the literal p that a global replace finds in s
\* from position i on: leftmost first, none overlapping an earlier one.
MatchStarts(s, p, i) ==
  With({c \in i..(Len(s) - Len(p) + 1) : At(s, c, p)}, LAMBDA cand :
  With(CHOOSE c \in cand : \A d \in cand : c <= d, LAMBDA m :
     IF cand = {} THEN {} ELSE {m} \cup MatchStarts(s, p, m + Len(p))))

\* replace(/p/gi, r) for a lower-case literal p (/p/g when s holds no capitals).
ReplaceLiteral(s, p, r) ==
  With(MatchStarts(ToLower(s), p, 1), LAMBDA M :
     IF M = {} THEN s
     ELSE Concat([i \in 1..Len(s) |->
                    IF i \in M THEN r
                    ELSE IF \E m \in M : m < i /\ i < m + Len(p) THEN ""
                    ELSE Ch(s, i)]))

\* The literals of NOISE_PATTERNS (the white space inside "<< ... >>" as one blank).
NOISE_PATTERNS ==
  <<"your browser does not support the video tag", "skip to main content",
    "תפריט ראשי", "<< הקודם הבא >>", "לא קיים סרטון", "מסמכי עבודה", "הדפסה">>

RECURSIVE RemoveNoise(_, _)
\* for (const p of NOISE_PATTERNS) out = out.replace(p, " "), from pattern k on.
RemoveNoise(out, k) ==
  IF k > Len(NOISE_PATTERNS) THEN out
  ELSE LET next == ReplaceLiteral(out, NOISE_PATTERNS[k], " ")
       IN IF next = "" THEN "" ELSE RemoveNoise(next, k + 1)

cleanAnswerText(tables, text) ==
  With(RemoveNoise(Norm(tables, OrEmpty(text)), 1), LAMBDA out :
     IF out = "" THEN "" ELSE Trim(CollapseSpaces(out)))

shortSnippet(tables, text, max) ==
  With(cleanAnswerText(tables, text), LAMBDA t :
     IF Len(t) <= max THEN t ELSE Trim(SubSeq(t, 1, max)) \o "...")

noiseScore(text) ==
  With(ToLower(OrEmpty(text)), LAMBDA t :
     (IF Has(t, "your browser does not support the video tag") THEN 3 ELSE 0)
     + (IF Has(t, "skip to main content") THEN 2 ELSE 0)
     + (IF Has(t, "תפריט ראשי") THEN 2 ELSE 0)
     + (IF Has(t, "לא קיים סרטון") THEN 1 ELSE 0)
     + (IF Has(t, "<< הקודם הבא >>") THEN 1 ELSE 0))

MaxFingerprintLength == 180

\* Lower case, everything but Hebrew, Latin letters, digits and blanks to a
\* blank, white space collapsed, trimmed, the first 180 characters.
fingerprint(text) ==
  With(ToLower(OrEmpty(text)), LAMBDA low :
  With(       IF low = "" THEN ""
              ELSE Concat([i \in 1..Len(low) |->
                     IF IsHeb(Ch(low, i)) \/ IsAlnum(Ch(low, i)) \/ Ch(low, i) = " "
                     THEN Ch(low, i) ELSE " "]), LAMBDA kept :
  With(IF kept = "" THEN "" ELSE Trim(CollapseSpaces(kept)), LAMBDA t :
     SubSeq(t, 1, IF Len(t) < MaxFingerprintLength THEN Len(t) ELSE MaxFingerprintLength))))

\* ------------------------------------------------------------------------
\* Classification of sources and hits
\* ------------------------------------------------------------------------

PRIMARY_LAW_DISPLAY_TITLE == "חוק החשמל - מקור חוקי"

PRIMARY_LAW_DISPLAY_URL == "https://fs.knesset.gov.il/2/law/2_lsr_208393.PDF"

ELECTRIC_LAW_HINTS ==
  {"חוק החשמל", "תקנות החשמל", "מינהל החשמל", "רשיונות חשמל", "רישוי חשמל",
   "הארקות יסוד", "מתקני חשמל", "בודק חשמל", "חשמלאי", "ת\"י 019", "ת\"י 60364",
   "iec 60364"}

\* source: a record with title, publisher and url.
isPrimaryLocalLawSource(source) ==
  With(ToLower(OrEmpty(source.title)), LAMBDA title :
  With(ToLower(OrEmpty(source.publisher)), LAMBDA publisher :
  With(ToLower(OrEmpty(source.url)), LAMBDA url :
     \/ Has(publisher, "official_local_pdf")
     \/ Has(publisher, "official_local_word")
     \/ StartsWith(url, "file:חוק-החשמל-2017.pdf")
     \/ StartsWith(url, "file:חוק-החשמל-2017.docx")
     \/ StartsWith(url, "file:חוק-החשמל-2017.doc")
     \/ (Has(title, "חוק החשמל") /\ Has(title, "2017")))))

isGovernmentLawSource(source) ==
  With(ToLower(OrEmpty(source.publisher)), LAMBDA publisher :
  With(ToLower(OrEmpty(source.url)), LAMBDA url :
     \/ HasAny(publisher, {"knesset", "gov", "nevo"})
     \/ HasAny(url, {"knesset.gov.il", "gov.il", "nevo.co.il"})))

isElectricLawish(title, url) ==
  With(ToLower(OrEmpty(title)), LAMBDA t :
  With(ToLower(OrEmpty(url)), LAMBDA u :
     \E k \in ELECTRIC_LAW_HINTS : Has(t, ToLower(k)) \/ Has(u, ToLower(k))))

\* source: a record with title, url and docType.
isMaskedIndexSource(source) ==
  With(ToLower(OrEmpty(source.title)), LAMBDA title :
  With(ToLower(OrEmpty(source.url)), LAMBDA url :
  With(ToLower(OrEmpty(source.docType)), LAMBDA docType :
     \/ Has(docType, "index")
     \/ Has(url, "mmok_takanot_maagar_2025")
     \/ Has(title, "מאגר תקנות"))))

\* The text "${source_title} ${section} ${text}" of a hit, absent parts empty.
HitHay(hit) ==
  ((OrEmpty(hit.source_title) \o " ") \o (OrEmpty(hit.section) \o " "))
    \o OrEmpty(hit.text)

\* The text "${source_title} ${source_url} ${section} ${text}" of a hit.
HitHayWithUrl(hit) ==
  ((OrEmpty(hit.source_title) \o " ") \o (OrEmpty(hit.source_url) \o " "))
    \o ((OrEmpty(hit.section) \o " ") \o OrEmpty(hit.text))

isElectricityLegalHit(tables, hit) ==
  With(ToLower(Norm(tables, HitHayWithUrl(hit))), LAMBDA hay :
  With(
        HasAny(hay, {"חשמל", "תקנות", "חוק", "הארק", "חישמול", "פחת", "לוח", "מיתקן",
                     "מקלחת", "אמבט", "בטיחות בעבודה", "סעיף", "תקנה", "ground", "rcd"}), LAMBDA positive :
  With(
        HasAny(hay, {"קבלת קהל", "רכב", "דרכון", "ארנונה", "נישואין", "תעסוקה", "שכר",
                     "רישוי", "מענק", "חינוך", "ביטוח לאומי"}), LAMBDA negative :
     positive /\ ~negative)))

\* The characters of /[À-ÿÆØß...]/ that a text of the model can hold.
SuspiciousChars ==
  "ÀÁÂÃÄÅÆÇÈÉÊËÌÍÎÏÐÑÒÓÔÕÖ×ØÙÚÛÜÝÞßàáâãäåæçèéêëìíîïðñòóôõö÷øùúûüýþÿ"

IsSuspicious(c) == \E i \in 1..Len(SuspiciousChars) : Ch(SuspiciousChars, i) = c

MojibakeCountLimit == 12

\* suspicious / len > 0.08 is 100 * suspicious > 8 * len.
hasMojibakeNoise(text) ==
  With(OrEmpty(text), LAMBDA t :
  With(Cardinality({i \in 1..Len(t) : IsSuspicious(Ch(t, i))}), LAMBDA suspicious :
     IF Trim(t) = "" THEN FALSE
     ELSE IF 100 * suspicious > 8 * Len(t) THEN TRUE
     ELSE HasAny(t, {"Ì", "Æ"}) /\ suspicious > MojibakeCountLimit))

SpecialSiteMedical(hay) == HasAny(hay, {"רפואי", "סביבת מטופל", "אתר רפואי"})

SpecialSitePool(hay) == HasAny(hay, {"בריכה", "בריכות", "מאגר מים"})

SpecialSiteAgricultural(hay) == HasAny(hay, {"חקלאי", "חצרים חקלאיים", "לול", "רפת"})

SpecialSiteConstruction(hay) == HasAny(hay, {"אתר בניה", "קרון מגורים", "מיתקן ארעי"})

extractQueryContextFlags(tables, question) ==
  With(ToLower(Norm(tables, OrEmpty(question))), LAMBDA q :
     [residential |-> HasAny(q, {"דירה", "דירת", "מגורים", "בית"}),
      medical |-> HasAny(q, {"רפואי", "מרפאה", "קליניקה", "בית חולים", "אתר רפואי"}),
      pool |-> HasAny(q, {"בריכה", "בריכות", "מאגר מים", "מים"}),
      agricultural |-> SpecialSiteAgricultural(q),
      construction |-> HasAny(q, {"אתר בניה", "בניה", "קרון מגורים", "מיתקן ארעי"})])

\* /^\d{2}-\d{2}-\d{2}$/
IsDateTitle(t) ==
  /\ Len(t) = 8
  /\ \A i \in {1, 2, 4, 5, 7, 8} : IsDigit(Ch(t, i))
  /\ Ch(t, 3) = "-" /\ Ch(t, 6) = "-"

isUnrelatedContextForQuery(tables, question, domainIntent, hit) ==
  With(extractQueryContextFlags(tables, question), LAMBDA ctx :
  With(ToLower(Norm(tables, HitHay(hit))), LAMBDA hay :
  With(ToLower(Norm(tables, OrEmpty(hit.source_title))), LAMBDA titleOnly :
  With(
        HasAny(Norm(tables, OrEmpty(question)),
               {"פירוש", "פרשנות", "מינהל החשמל", "הבהרה", "חוזר"}), LAMBDA asksInterpretation :
  With(
        \/ HasAny(titleOnly, {"פירושים בעניין יישום", "מינהל החשמל", "פניה"})
        \/ IsDateTitle(Trim(OrEmpty(hit.source_title))), LAMBDA memo :
     IF ~asksInterpretation /\ memo THEN TRUE
     ELSE IF domainIntent = "grounding"
             /\ \/ (~ctx.medical /\ SpecialSiteMedical(hay))
                \/ (~ctx.pool /\ SpecialSitePool(hay))
                \/ (~ctx.agricultural /\ SpecialSiteAgricultural(hay))
                \/ (~ctx.construction /\ SpecialSiteConstruction(hay))
          THEN TRUE
     ELSE /\ ctx.residential
          /\ \/ (~ctx.medical /\ SpecialSiteMedical(hay))
             \/ (~ctx.pool /\ SpecialSitePool(hay))
             \/ (~ctx.agricultural /\ SpecialSiteAgricultural(hay)))))))

\* In hundredths: 0.45 is 45, 0.35 is 35.
contextMatchBoost(tables, question, hit) ==
  With(extractQueryContextFlags(tables, question), LAMBDA ctx :
  With(ToLower(Norm(tables, HitHay(hit))), LAMBDA hay :
     (IF ctx.residential /\ HasAny(hay, {"דירה", "דירת", "מגורים", "בית"}) THEN 45 ELSE 0)
     + (IF ctx.medical /\ HasAny(hay, {"רפואי", "מרפאה", "קליניקה", "בית חולים"})
        THEN 45 ELSE 0)
     + (IF ctx.pool /\ SpecialSitePool(hay) THEN 35 ELSE 0)
     + (IF ctx.agricultural /\ SpecialSiteAgricultural(hay) THEN 35 ELSE 0)
     + (IF ctx.construction /\ SpecialSiteConstruction(hay) THEN 35 ELSE 0)))

strongIntentMatch(tables, question, hit, domainIntent) ==
  With(ToLower(Norm(tables, OrEmpty(question))), LAMBDA q :
  With(ToLower(Norm(tables, HitHay(hit))), LAMBDA hay :
     IF domainIntent = "grounding" \/ Has(q, "הארקה")
     THEN HasAny(hay, {"הארקה", "מוליך הארקה", "השוואת פוטנציאלים", "tt", "tn", "pe",
                       "איפוס"})
     ELSE IF domainIntent = "bathroom"
     THEN \/ HasAny(hay, {"אמבט", "מקלח", "חדר רחצה", "רטוב"})
          \/ \E d \in {"0", "1", "2"} : HasGap(hay, "אזור", d)
     ELSE IF domainIntent = "rcd" THEN HasAny(hay, {"פחת", "rcd", "ממסר פחת"})
     ELSE TRUE))

\* ------------------------------------------------------------------------
\* Lists and tokens
\* ------------------------------------------------------------------------

\* A list computed once: the function f on 1..n as a tuple.
Listed(f) == f \o <<>>

\* The numbers of S in increasing order.
SortedSeq(S) ==
  Listed([k \in 1..Cardinality(S) |->
            CHOOSE x \in S : Cardinality({y \in S : y < x}) = k - 1])

\* The elements of seq at the indices I, in the order of seq (Array.filter).
Keep(seq, I) ==
  LET idx == SortedSeq(I) IN Listed([k \in 1..Len(idx) |-> seq[idx[k]]])

\* Array.from(new Set(seq)): the first occurrence of every element, in order.
Unique(seq) ==
  Keep(seq, {i \in 1..Len(seq) : \A j \in 1..(i - 1) : seq[j] # seq[i]})

\* Array.slice(0, n)
Take(seq, n) == SubSeq(seq, 1, IF Len(seq) < n THEN Len(seq) ELSE n)

\* seq sorted by Before with Array.sort, which is stable: an element comes after
\* those that sort before it and after the earlier ones that it ties with.
SortBy(seq, Before(_, _)) ==
  LET Pos(i) ==
        1 + Cardinality({j \in 1..Len(seq) :
                           /\ j # i
                           /\ \/ Before(seq[j], seq[i])
                              \/ (~Before(seq[i], seq[j]) /\ j < i)})
  IN
     Listed([k \in 1..Len(seq) |-> seq[CHOOSE i \in 1..Len(seq) : Pos(i) = k]])

\* replace(/[^֐-׿A-Za-z0-9\s]/g, " ")
KeepLettersDigits(s) ==
  IF s = "" THEN ""
  ELSE Concat([i \in 1..Len(s) |->
                 IF IsHeb(Ch(s, i)) \/ IsAlnum(Ch(s, i)) \/ IsSpace(Ch(s, i))
                 THEN Ch(s, i) ELSE " "])

\* The word of s that starts at i.
WordAt(s, i) ==
  With({j \in i..Len(s) : j = Len(s) \/ IsSpace(Ch(s, j + 1))}, LAMBDA ends :
     SubSeq(s, i, CHOOSE j \in ends : \A k \in ends : j <= k))

\* split(/\s+/) without the empty strings: the words of s in order.
Words(s) ==
  With(         SortedSeq({i \in 1..Len(s) :
                             ~IsSpace(Ch(s, i)) /\ (i = 1 \/ IsSpace(Ch(s, i - 1)))}), LAMBDA starts :
     Listed([k \in 1..Len(starts) |-> WordAt(s, starts[k])]))

\* t1, strip(t1), t2, strip(t2), ...
WithStripped(tokens) ==
  Listed([k \in 1..(2 * Len(tokens)) |->
            IF k % 2 = 1 THEN tokens[(k + 1) \div 2]
            ELSE stripHebrewPrefix(tokens[k \div 2])])

\* "t1 t2", "strip(t1) strip(t2)", "t2 t3", ...
TokenPairs(tokens) ==
  IF Len(tokens) < 2 THEN <<>> ELSE
  Listed([k \in 1..(2 * (Len(tokens) - 1)) |->
            With((k + 1) \div 2, LAMBDA i :
               IF k % 2 = 1 THEN (tokens[i] \o " ") \o tokens[i + 1]
               ELSE (stripHebrewPrefix(tokens[i]) \o " ")
                      \o stripHebrewPrefix(tokens[i + 1]))])

RECURSIVE JoinWith(_, _, _)
\* parts.join(sep) from part k on.
JoinWith(parts, sep, k) ==
  IF k > Len(parts) THEN ""
  ELSE IF k = Len(parts) THEN parts[k]
  ELSE (parts[k] \o sep) \o JoinWith(parts, sep, k + 1)

\* One entry of synonymMap: the variants it adds when its expression matches.
SynonymVariants(normalized, matches, add) ==
  IF matches THEN <<(normalized \o " ") \o JoinWith(add, " ", 1)>> \o add ELSE <<>>

QUERY_STOPWORDS ==
  {"איך", "מה", "מתי", "למה", "איפה", "מי", "עם", "על", "של", "את", "זה", "זו", "או",
   "אם", "כי", "לפי", "צריך", "אפשר", "רוצה", "לסדר"}

MaxQueryVariants == 8

\* The strings that buildExpandedQueries adds to its set, in the order in
\* which it adds them.
InsertedVariants(tables, q) ==
  With(Trim(sanitizeUserQuestion(tables, q)), LAMBDA normalized :
  With(ToLower(normalized), LAMBDA low :
  With(       <<normalized, normalized \o " לפי תקנות", normalized \o " חוק החשמל",
                normalized \o " תקנות חשמל">>, LAMBDA base :
  With(
        SynonymVariants(normalized, HasAny(low, {"הארקה", "הארקות"}),
                        <<"הארקת יסוד", "מוליך הארקה", "השוואת פוטנציאלים", "PE">>)
        \o SynonymVariants(normalized, Has(low, "פחת"), <<"מפסק פחת", "RCD", "ממסר פחת">>)
        \o SynonymVariants(normalized, HasAny(low, {"ריכוז מונים", "מונים", "מונה"}),
                           <<"ארון מונים", "ריכוז מונים", "לוח מונים">>)
        \o SynonymVariants(normalized, HasAny(low, {"לוח", "לוחות"}),
                           <<"לוח חשמל", "לוח ראשי", "מפסק ראשי">>)
        \o SynonymVariants(normalized, HasAny(low, {"איפוס", "tt", "tn"}),
                           <<"TN", "TT", "שיטת איפוס">>)
        \o SynonymVariants(normalized,
                           HasAny(low, {"אמבטיה", "מקלחת", "חדר רחצה", "רטוב"}),
                           <<"אמבטיה", "מקלחת", "חדר רחצה", "הגנה מפני חישמול",
                             "מרחקי בטיחות", "מרחק מאמבטיה לפי תקנות">>), LAMBDA synonyms :
  With(Trim(CollapseSpaces(KeepLettersDigits(normalized))), LAMBDA cleaned :
  With(Words(cleaned), LAMBDA words :
  With(         Keep(words, {i \in 1..Len(words) :
                               Len(words[i]) >= 3 /\ words[i] \notin QUERY_STOPWORDS}), LAMBDA tokens :
  With(((base \o synonyms) \o WithStripped(tokens)) \o TokenPairs(tokens), LAMBDA variants :
     variants))))))))

\* The first strings that are added, repeated ones included.
FirstInsertedVariants(tables, q) == Take(InsertedVariants(tables, q), MaxQueryVariants)

\* Array.from(variants).slice(0, 8)
buildExpandedQueries(tables, q) ==
  Take(Unique(InsertedVariants(tables, q)), MaxQueryVariants)



\* The fingerprints of the texts of the chunks, computed once.
Fingerprints(tables) ==
  Memo([t \in {c.text : c \in ChunkRows} \cup {cleanAnswerText(tables, c.text) : c \in ChunkRows} |->
     fingerprint(t)])

\* fingerprint(text)
Fp(tables, text) == tables.fingerprints[text]

\* The key of a hit in dedupeHits.
\* `${h.source_title}||${h.section || ""}||${fingerprint(h.text || "")}`
HitKey(tables, h) ==
  h.source_title \o "||" \o OrEmpty(h.section) \o "||" \o Fp(tables, OrEmpty(h.text))

dedupeHits(tables, hits) ==
  Keep(hits, {i \in 1..Len(hits) : \A j \in 1..(i - 1) : HitKey(tables, hits[j]) # HitKey(tables, hits[i])})

detectDomainIntent(tables, question) ==
  With(ToLower(Norm(tables, OrEmpty(question))), LAMBDA q :
     IF \/ HasAny(q, {"אמבט", "אמבטיה", "מקלח", "מקלחת", "חדר רחצה", "רטוב"})
        \/ \E d \in {"0", "1", "2"} : HasGap(q, "אזור", d)
     THEN "bathroom"
     ELSE IF HasAny(q, {"ברז גינה", "גינה", "חצר", "חוץ"}) THEN "garden"
     ELSE IF \/ HasAny(q, {"הארקה", "מוליך הארקה", "השוואת פוטנציאלים", "לולאת תקלה"})
             \/ HasW(q, "pe") \/ HasW(q, "zs")
     THEN "grounding"
     ELSE IF HasAny(q, {"פחת", "rcd", "ממסר פחת"}) THEN "rcd"
     ELSE IF HasAny(q, {"לוח", "לוחות", "מפסק ראשי", "מאמ\"ת", "מאמת"}) THEN "panels"
     ELSE IF HasAny(q, {"מונה", "מונים", "ריכוז מונים", "ארון מונים"}) THEN "metering"
     ELSE IF HasAny(q, {"רפואי", "מרפאה", "קליניקה", "בית חולים"}) THEN "medical"
     ELSE "general")

\* In hundredths: 1 is 100, 0.5 is 50.
domainRelevanceScore(tables, domain, hit) ==
  With(ToLower(Norm(tables, OrEmpty(hit.source_title))), LAMBDA title :
  With(ToLower(Norm(tables, OrEmpty(hit.section))), LAMBDA section :
  With(ToLower(Norm(tables, OrEmpty(hit.text))), LAMBDA text :
  With(((title \o " ") \o (section \o " ")) \o text, LAMBDA hay :
  LET Score(found) == IF found THEN 100 ELSE 0
  IN
     CASE domain = "bathroom" ->
            Score(HasAny(hay, {"אמבטיה", "מקלחת", "חדר רחצה", "רטוב"}))
       [] domain = "garden" ->
            Score(HasAny(hay, {"ברז גינה", "גינה", "חצר", "מתקן חוץ", "חיצוני"}))
       [] domain = "grounding" ->
            Score(\/ HasAny(hay, {"הארקה", "מוליך הארקה", "השוואת פוטנציאלים",
                                  "לולאת תקלה", "fault loop"})
                  \/ HasW(hay, "pe") \/ HasW(hay, "zs"))
       [] domain = "rcd" -> Score(HasAny(hay, {"פחת", "ממסר פחת"}) \/ HasW(hay, "rcd"))
       [] domain = "panels" ->
            Score(HasAny(hay, {"לוח", "מפסק ראשי", "מאמ\"ת", "מאמת", "מפסקים"}))
       [] domain = "metering" ->
            Score(HasAny(hay, {"מונה", "מונים", "ריכוז מונים", "ארון מונים"}))
       [] domain = "medical" ->
            Score(HasAny(hay, {"רפואי", "מרפאה", "קליניקה", "בית חולים"}))
       [] OTHER -> 50))))

SEARCH_STOPWORDS == QUERY_STOPWORDS \cup {"האם", "יש", "ל"}

MinTokenLength == 2

extractSearchTokens(tables, q) ==
  With(Words(KeepLettersDigits(ToLower(Norm(tables, OrEmpty(q))))), LAMBDA words :
  With(         Keep(words, {i \in 1..Len(words) :
                               Len(words[i]) >= MinTokenLength
                               /\ words[i] \notin SEARCH_STOPWORDS}), LAMBDA tokens :
  With(Unique(WithStripped(tokens)), LAMBDA expanded :
     Keep(expanded, {i \in 1..Len(expanded) : Len(expanded[i]) >= MinTokenLength}))))

tokenizeForScoring(text) ==
  With(Words(KeepLettersDigits(ToLower(OrEmpty(text)))), LAMBDA words :
     Keep(words, {i \in 1..Len(words) : Len(words[i]) >= MinTokenLength}))

\* The numerator of tokenOverlapScore: the query tokens, counted with
\* repetition, that are tokens of the candidate.  The scores of two candidates
\* for one query compare as their numerators do.
MatchedTokens(query, candidate) ==
  With(tokenizeForScoring(query), LAMBDA qTokens :
  With(tokenizeForScoring(candidate), LAMBDA cTokens :
  With({cTokens[i] : i \in 1..Len(cTokens)}, LAMBDA cSet :
     Cardinality({i \in 1..Len(qTokens) : qTokens[i] \in cSet}))))

\* The correction prefixes that buildContextualQuestion strips from the start.
CorrectionPrefixes == <<"זה לא הכוונה", "לא הכוונה", "הכוונה הייתה", "התכוונתי">>

RECURSIVE StripCorrections(_, _)
\* The four replace calls in order, from prefix k on: the prefix, an optional
\* comma or colon, and the white space after it.
StripCorrections(s, k) ==
  IF k > Len(CorrectionPrefixes) THEN s
  ELSE LET p == CorrectionPrefixes[k]
           a == SkipSpaces(s, 1)
           b == a + Len(p)
           c == IF Ch(s, b) \in {",", ":"} THEN b + 1 ELSE b
           rest == SubSeq(s, SkipSpaces(s, c), Len(s))
       IN StripCorrections(IF At(s, a, p) THEN rest ELSE s, k + 1)

\* history: the q fields of the history items, oldest first.
buildContextualQuestion(question, history) ==
  With(Trim(OrEmpty(question)), LAMBDA qRaw :
  With(Trim(StripCorrections(qRaw, 1)), LAMBDA stripped :
  With(IF stripped = "" THEN qRaw ELSE stripped, LAMBDA q :
  With(IF Len(history) > 0 THEN Trim(OrEmpty(history[Len(history)])) ELSE "", LAMBDA lastQ :
  With(
        \/ HasGap(qRaw, "לא ", "הכוונה") \/ HasGap(qRaw, "הכוונה ", "הייתה")
        \/ Has(qRaw, "התכוונתי") \/ HasGap(qRaw, "זה ", "לא"), LAMBDA isCorrection :
  With(
        \/ \E p \in {"ומה", "ואם", "ואיך", "תסביר", "תפרט", "ועכשיו", "לגבי", "ומה לגבי"} :
             StartsWith(q, p)
        \/ \E w \in {"יותר", "פחות", "אותו", "זה", "זו"} : HasW(q, w), LAMBDA isLikelyFollowUp :
     IF lastQ = "" THEN q
     ELSE IF isCorrection THEN q
     ELSE IF ~isLikelyFollowUp THEN q
     ELSE Trim((lastQ \o " ") \o q)))))))

\* ------------------------------------------------------------------------
\* The direct scan of the legal chunks
\* ------------------------------------------------------------------------

MkHit(source_title, source_url, section, locator, text, rank) ==
  [source_title |-> source_title, source_url |-> source_url, section |-> section,
   locator |-> locator, text |-> text, rank |-> rank]

\* The chunks table in the order the database returns it.
ChunkTable ==
  <<ChunkAt("c1"), ChunkAt("c2"), ChunkAt("c3"), ChunkAt("c4"), ChunkAt("c5"),
    ChunkAt("c6"), ChunkAt("c7"), ChunkAt("c8"), ChunkAt("c9")>>

\* The hit that a search or a scan makes of a chunk.
HitOf(locator, rank) ==
  With(ChunkAt(locator), LAMBDA c :
  With(SourceOf(c.source_id), LAMBDA s :
     MkHit(s.title, s.url, c.section, c.locator, c.text, rank)))

\* .or("doc_type.like.law_%,doc_type.like.regulation_%,doc_type.like.safety_%")
IsLegalDocType(docType) ==
  StartsWith(docType, "law_") \/ StartsWith(docType, "regulation_")
    \/ StartsWith(docType, "safety_")

\* Ranks and scores are in hundredths: 2.2 is 220, 0.55 is 55, 0.35 is 35,
\* 0.2 is 20, 1.4 is 140, 0.9 is 90.
WholeQuestionScore == 220

TokenInTextScore == 55

TokenInSectionScore == 35

TokenInTitleScore == 20

PrimaryLawBoost == 140

MinScoreFocused == 55

MinScoreGeneral == 90

\* The score that the scan gives a row of chunks of the source.
ScanScore(tables, qNorm, qTokens, row, source) ==
  With(ToLower(Norm(tables, OrEmpty(row.text))), LAMBDA hay :
  With(ToLower(OrEmpty(row.section)), LAMBDA section :
  With(ToLower(source.title), LAMBDA title :
  LET Count(where, points) ==
        points * Cardinality({i \in 1..Len(qTokens) : Has(where, qTokens[i])})
  IN
     (IF qNorm # "" /\ Has(hay, qNorm) THEN WholeQuestionScore ELSE 0)
     + Count(hay, TokenInTextScore) + Count(section, TokenInSectionScore)
     + Count(title, TokenInTitleScore)
     + (IF isPrimaryLocalLawSource(source) THEN PrimaryLawBoost ELSE 0))))

RankDescending(a, b) == a.rank > b.rank

\* dbOk: the two reads of the database succeed; a failed read gives no hits.
fallbackLawChunkSearch(tables, question, limit, dbOk) ==
  With(
        {s \in SourceRows :
           /\ IsLegalDocType(OrEmpty(s.doc_type))
           /\ isPrimaryLocalLawSource(s) \/ isGovernmentLawSource(s)
           /\ ~isMaskedIndexSource([title |-> s.title, url |-> s.url,
                                    docType |-> s.doc_type])}, LAMBDA allowed :
  With(ToLower(Norm(tables, question)), LAMBDA qNorm :
  With(extractSearchTokens(tables, question), LAMBDA qTokens :
  With(detectDomainIntent(tables, question), LAMBDA domain :
  With(           IF domain \in {"bathroom", "grounding"} THEN MinScoreFocused
                  ELSE MinScoreGeneral, LAMBDA minScore :
  LET Score(row) == ScanScore(tables, qNorm, qTokens, row, SourceOf(row.source_id))
  IN
  With(       Keep(ChunkTable,
                   {i \in 1..Len(ChunkTable) :
                      /\ SourceOf(ChunkTable[i].source_id) \in allowed
                      /\ Score(ChunkTable[i]) >= minScore}), LAMBDA rows :
  With(         Listed([i \in 1..Len(rows) |->
                   With(SourceOf(rows[i].source_id), LAMBDA s :
                      MkHit(s.title, s.url, rows[i].section, rows[i].locator,
                            Norm(tables, OrEmpty(rows[i].text)), Score(rows[i])))]), LAMBDA scored :
     IF ~dbOk \/ allowed = {} THEN <<>>
     ELSE IF Len(qTokens) = 0 /\ qNorm = "" THEN <<>>
     ELSE dedupeHits(tables, Take(SortBy(scored, RankDescending), limit)))))))))

\* ------------------------------------------------------------------------
\* Ranking of the hits
\* ------------------------------------------------------------------------

\* Array.filter
Filter(seq, Test(_)) == SelectSeq(seq, Test)

\* const kept = seq.filter(Test); if (kept.length > 0) seq = kept;
FilterIfAny(seq, Test(_)) ==
  LET kept == Filter(seq, Test) IN IF Len(kept) > 0 THEN kept ELSE seq

SourceByTitle(title) == CHOOSE s \in SourceRows : s.title = title

\* The titles that sourceDocTypes, sourcePublishers and sourceUrls hold after
\* the metadata lookup; a failed lookup (no data) leaves the three maps empty.
LookedUpTitles(hits, metadataOk) ==
  IF metadataOk
  THEN {hits[i].source_title : i \in 1..Len(hits)} \cap {s.title : s \in SourceRows}
  ELSE {}

\* sourceDocTypes[title] || ""
sourceDocTypes(meta, title) ==
  IF title \in meta THEN OrEmpty(SourceByTitle(title).doc_type) ELSE ""

\* sourcePublishers[title] || ""
sourcePublishers(meta, title) ==
  IF title \in meta THEN OrEmpty(SourceByTitle(title).publisher) ELSE ""

\* sourceUrls[h.source_title] || h.source_url || ""
MetaUrl(meta, h) ==
  With(        IF h.source_title \in meta THEN OrEmpty(SourceByTitle(h.source_title).url)
               ELSE "", LAMBDA known :
     IF known # "" THEN known ELSE OrEmpty(h.source_url))

isCatalogIntent(q) ==
  HasAny(ToLower(q), {"קטלוג", "מק\"ט", "מקט", "דגם", "מחיר", "שניידר", "schneider",
                      "ארכה", "erco", "אסקו", "aresco", "wise", "אל-קם", "אלקם",
                      "el-kam", "elkam"})

isUtilityIntent(q) ==
  HasAny(q, {"המעגל", "חברת החשמל", "ריכוז מונים", "מונים", "מונה", "חיבור לבניין",
             "תכנון חיבור"})

isMedicalIntent(q) ==
  HasAny(q, {"רפואי", "מרפאה", "קליניקה"}) \/ HasGap(q, "בית", "חולים")

isBathroomIntent(q) == HasAny(q, {"אמבטיה", "מקלחת", "חדר רחצה", "רטוב"})

\* A test of the title that finds no medical title.
NoMedicalTitle(h) == FALSE

\* /(רפואי|אתרי רפואיים|מרפאה|קליניקה)/i on the title of the source of a hit
IsMedicalTitle(h) ==
  HasAny(OrEmpty(h.source_title), {"רפואי", "אתרי רפואיים", "מרפאה", "קליניקה"})

getPriorityForHit(h, meta) ==
  With(ToLower(sourceDocTypes(meta, h.source_title)), LAMBDA docType :
  With(ToLower(sourcePublishers(meta, h.source_title)), LAMBDA publisher :
  With(ToLower(OrEmpty(h.source_url)), LAMBDA url :
  With(ToLower(OrEmpty(h.source_title)), LAMBDA title :
  With(
        HasAny(publisher, {"knesset", "nevo"}) \/ HasAny(url, {"knesset.gov.il", "nevo.co.il"}), LAMBDA isKnownLawPublisher :
  With(
        (Has(publisher, "gov") \/ Has(url, "gov.il")) /\ isElectricLawish(title, url), LAMBDA isGovElectricLaw :
     IF IsLegalDocType(docType) \/ isKnownLawPublisher \/ isGovElectricLaw
     THEN legalDocTier(docType) - 2
     ELSE IF StartsWith(docType, "utility_") \/ Has(publisher, "iec")
             \/ Has(url, "iec-hamaagal.co.il")
     THEN 1
     ELSE IF \/ StartsWith(docType, "catalog_")
             \/ HasAny(publisher, {"public_copy", "schneider", "erco", "aresco", "wise",
                                   "el-kam"})
             \/ HasAny(url, {"erco.co.il", "aresco.co.il", "wise-electric.co.il",
                             "wise-electric.com", "el-kam.com", "se.com"})
     THEN 3
     ELSE 2))))))

\* The allow-list: the primary local law or a government source, and no index.
IsAllowListed(h, meta) ==
  With(sourcePublishers(meta, h.source_title), LAMBDA publisher :
  With(MetaUrl(meta, h), LAMBDA metaUrl :
  With(sourceDocTypes(meta, h.source_title), LAMBDA docType :
     /\ \/ isPrimaryLocalLawSource([title |-> h.source_title, publisher |-> publisher,
                                    url |-> metaUrl])
        \/ isGovernmentLawSource([publisher |-> publisher, url |-> metaUrl])
     /\ ~isMaskedIndexSource([title |-> h.source_title, url |-> metaUrl,
                              docType |-> docType]))))

IsElectricityHit(tables, h, meta) ==
  isElectricityLegalHit(tables, [source_title |-> h.source_title, source_url |-> MetaUrl(meta, h),
                         section |-> h.section, text |-> h.text])

\* The test of the law_only scope.
InLawOnlyScope(h, meta) ==
  With(ToLower(sourceDocTypes(meta, h.source_title)), LAMBDA docType :
  With(ToLower(OrEmpty(h.source_url)), LAMBDA url :
  With(ToLower(OrEmpty(h.source_title)), LAMBDA title :
  With(HasAny(url, {"nevo.co.il", "knesset.gov.il"}), LAMBDA isNevoOrKnesset :
  With(isElectricLawish(title, url), LAMBDA isElectricLaw :
     \/ IsLegalDocType(docType)
     \/ (isNevoOrKnesset /\ isElectricLaw)
     \/ (Has(url, "gov.il") /\ isElectricLaw))))))

\* aOrder of the sort of the law_only scope.
ScopeOrder(h, meta) == legalDocTier(sourceDocTypes(meta, h.source_title))


\* 100 * noise > 8 * length is noiseRatio > 0.08; a text of the model holds no
\* control characters, so the noise is its replacement characters.
isReadableHit(raw) ==
  With(OrEmpty(raw), LAMBDA text :
  With(Cardinality({i \in 1..Len(text) : Ch(text, i) = "�"}), LAMBDA replacementChars :
     IF Trim(text) = "" THEN FALSE
     ELSE IF 100 * replacementChars > 8 * Len(text) THEN FALSE
     ELSE ~hasMojibakeNoise(text)))

IsMaskedHit(h, meta) ==
  isMaskedIndexSource([title |-> h.source_title, url |-> MetaUrl(meta, h),
                       docType |-> sourceDocTypes(meta, h.source_title)])

\* /^chunk\s+\d+/i
IsChunkLabel(section) ==
  With(ToLower(section), LAMBDA s :
     StartsWith(s, "chunk") /\ IsSpace(Ch(s, 6)) /\ IsDigit(Ch(s, SkipSpaces(s, 6))))

MaxSegmentLength == 320

\* One AnswerSegment of a top hit.
SegmentOf(tables, h, meta) ==
  [title |-> IF IsMaskedHit(h, meta) THEN PRIMARY_LAW_DISPLAY_TITLE ELSE h.source_title,
   section |-> IF ~Falsy(h.section) /\ ~IsChunkLabel(h.section) THEN h.section
               ELSE "קטע רלוונטי",
   text |-> shortSnippet(tables, cleanAnswerText(tables, OrEmpty(h.text)), MaxSegmentLength),
   url |-> IF IsMaskedHit(h, meta) THEN PRIMARY_LAW_DISPLAY_URL
           ELSE IF Falsy(h.source_url) THEN Undef ELSE h.source_url]

\* One SourceRef of a top hit.
SourceRefOf(h, meta) ==
  [title |-> IF IsMaskedHit(h, meta) THEN PRIMARY_LAW_DISPLAY_TITLE ELSE h.source_title,
   section |-> IF Falsy(h.section) THEN "ללא סעיף" ELSE h.section,
   url |-> IF IsMaskedHit(h, meta) THEN PRIMARY_LAW_DISPLAY_URL
           ELSE IF Falsy(h.source_url) THEN Undef ELSE h.source_url]

\* ------------------------------------------------------------------------
\* What the ranker reads of the hits, computed once
\* ------------------------------------------------------------------------

Locators == {c.locator : c \in ChunkRows}

\* The request bodies of the model send no history.
Histories == {<<>>}

\* contextualQuestion of a question: buildContextualQuestion on the sanitized
\* question.
ContextualOf(tables, q, history) == buildContextualQuestion(sanitizeUserQuestion(tables, q), history)

ContextualTable(tables) ==
  Memo([k \in UserTexts \X Histories |-> ContextualOf(tables, k[1], k[2])])

Contextual(tables, q, history) == tables.contextual[<<q, history>>]

QueryTexts(tables) == UserTexts \cup {tables.contextual[k] : k \in DOMAIN tables.contextual}

\* What the ranker reads of a hit besides its rank and the question: for the
\* hit of every chunk, with the metadata of its source looked up or not.
HitFacts(tables) ==
  Memo([k \in Locators \X BOOLEAN |->
     With(HitOf(k[1], 0), LAMBDA h :
     With(IF k[2] THEN {h.source_title} ELSE {}, LAMBDA meta :
        [priority |-> getPriorityForHit(h, meta),
         allowListed |-> IsAllowListed(h, meta),
         electricity |-> IsElectricityHit(tables, h, meta),
         mojibake |-> hasMojibakeNoise(OrEmpty(h.text)),
         medicalTitle |-> IsMedicalTitle(h),
         lawOnly |-> InLawOnlyScope(h, meta),
         primaryLaw |-> isPrimaryLocalLawSource(
                          [title |-> h.source_title,
                           publisher |-> sourcePublishers(meta, h.source_title),
                           url |-> MetaUrl(meta, h)]),
         scopeOrder |-> ScopeOrder(h, meta),
         readable |-> isReadableHit(OrEmpty(h.text)),
         tier |-> legalDocTier(sourceDocTypes(meta, h.source_title)),
         noise |-> noiseScore(OrEmpty(h.text)),
         fp |-> fingerprint(cleanAnswerText(tables, OrEmpty(h.text))),
         segment |-> SegmentOf(tables, h, meta),
         sourceRef |-> SourceRefOf(h, meta),
         evidence |-> Norm(tables, OrEmpty(h.text))]))])

\* The hits of the model are the hits of the chunks.
HF(tables, h, meta) == tables.hitFacts[<<h.locator, h.source_title \in meta>>]

\* What the ranker reads of a hit and the contextual question.
QueryHitFacts(tables) ==
  Memo([k \in QueryTexts(tables) \X Locators |->
     With(HitOf(k[2], 0), LAMBDA h :
     With(detectDomainIntent(tables, k[1]), LAMBDA domainIntent :
        [unrelated |-> isUnrelatedContextForQuery(tables, k[1], domainIntent, h),
         strong |-> strongIntentMatch(tables, k[1], h, domainIntent),
         domain |-> domainRelevanceScore(tables, domainIntent, h),
         matched |-> MatchedTokens(k[1], OrEmpty(h.text)),
         boost |-> contextMatchBoost(tables, k[1], h),
         earthingScore |-> scoreChunkForEarthingValueQuestion(tables, k[1], OrEmpty(h.text))]))])

QF(tables, question, h) == tables.queryHitFacts[<<question, h.locator>>]

ScanLimit == 20

RefillLimit == 25

\* The direct scans of a healthy database, computed once.
Scans(tables) ==
  Memo([k \in QueryTexts(tables) \X {ScanLimit, RefillLimit} |->
     fallbackLawChunkSearch(tables, k[1], k[2], TRUE)])

\* fallbackLawChunkSearch; a failed read gives no hits.
Scan(tables, question, limit, dbOk) == IF dbOk THEN tables.scans[<<question, limit>>] ELSE <<>>

\* What the handler reads of the question.
QueryFacts(tables) ==
  Memo([t \in QueryTexts(tables) |->
     [domainIntent |-> detectDomainIntent(tables, t),
      earthingValueIntent |-> isEarthingValueQuestion(tables, t),
      loopFaultIntent |-> isLoopFaultQuestion(tables, t),
      looksLikeOhms |-> looksLikeEarthingOhmsQuestion(t),
      catalog |-> isCatalogIntent(t),
      utility |-> isUtilityIntent(t),
      medical |-> isMedicalIntent(t),
      bathroom |-> isBathroomIntent(t),
      measurementInfo |-> hasEarthingMeasurementInfo(tables, t, Undef),
      needsNumeric |-> NeedsNumeric(t)]])

\* ------------------------------------------------------------------------
\* Ranking of the hits
\* ------------------------------------------------------------------------

\* The first sort: by priority, then by rank, descending.
PriorityThenRank(tables, hits, meta) ==
  SortBy(hits, LAMBDA a, b :
    \/ HF(tables, a, meta).priority < HF(tables, b, meta).priority
    \/ (HF(tables, a, meta).priority = HF(tables, b, meta).priority /\ a.rank > b.rank))

ScopeFilter(tables, rankedHits, selectedScope, meta) ==
  IF selectedScope = "law_only"
  THEN SortBy(Filter(rankedHits, LAMBDA h : HF(tables, h, meta).lawOnly),
              LAMBDA a, b :
                \/ HF(tables, a, meta).scopeOrder < HF(tables, b, meta).scopeOrder
                \/ (HF(tables, a, meta).scopeOrder = HF(tables, b, meta).scopeOrder /\ a.rank > b.rank))
  ELSE IF selectedScope = "law_plus_utility"
  THEN Filter(rankedHits, LAMBDA h : HF(tables, h, meta).priority <= 1)
  ELSE rankedHits

\* The hit set after the first sort and after every filter of the handler, in
\* the handler's order: 1 the first sort, 2 the allow-list, 3 the electricity
\* filter, 4 the mojibake filter, 5 the context filter, 6 the strong-intent
\* filter, 7 the catalog suppression, 8 the domain-intent filter, 9 the
\* suppression of the medical titles, 10 the scope filter.
FilterTrail(tables, hits, q, contextualQuestion, selectedScope, meta) ==
  With(tables.queryFacts[contextualQuestion].domainIntent, LAMBDA domainIntent :
  With(PriorityThenRank(tables, hits, meta), LAMBDA s0 :
  With(Filter(s0, LAMBDA h : HF(tables, h, meta).allowListed), LAMBDA s1 :
  With(Filter(s1, LAMBDA h : HF(tables, h, meta).electricity), LAMBDA s2 :
  With(Filter(s2, LAMBDA h : ~HF(tables, h, meta).mojibake), LAMBDA s3 :
  With(FilterIfAny(s3, LAMBDA h : ~QF(tables, contextualQuestion, h).unrelated), LAMBDA s4 :
  With(FilterIfAny(s4, LAMBDA h : QF(tables, contextualQuestion, h).strong), LAMBDA s5 :
  With(     IF ~tables.queryFacts[q].catalog
            THEN FilterIfAny(s5, LAMBDA h : HF(tables, h, meta).priority <= 2) ELSE s5, LAMBDA s6 :
  With(     IF domainIntent # "general"
            THEN FilterIfAny(s6, LAMBDA h : QF(tables, contextualQuestion, h).domain >= 100)
            ELSE s6, LAMBDA s7 :
  With(     IF ~tables.queryFacts[q].medical THEN Filter(s7, LAMBDA h : ~HF(tables, h, meta).medicalTitle)
            ELSE s7, LAMBDA s8 :
     <<s0, s1, s2, s3, s4, s5, s6, s7, s8,
       ScopeFilter(tables, s8, selectedScope, meta)>>))))))))))

\* The filters from the allow-list to the scope filter, in the handler's order.
FilterStages(tables, hits, q, contextualQuestion, selectedScope, meta) ==
  With(FilterTrail(tables, hits, q, contextualQuestion, selectedScope, meta), LAMBDA trail :
     trail[Len(trail)])

\* A refill by the direct scan: the scan's hits without the medical titles
\* (unless the question is medical).
Refill(tables, question, q, dbOk) ==
  With(Scan(tables, question, RefillLimit, dbOk), LAMBDA fallbackHits :
     IF ~tables.queryFacts[q].medical
     THEN Filter(fallbackHits, LAMBDA h : ~IsMedicalTitle(h))
     ELSE fallbackHits)

\* rankedHits after the two refills and the legal-sources-dominate rule, with
\* the number of direct scans run on the way.
RefillStages(tables, scoped, q, contextualQuestion, selectedScope, meta, dbOk) ==
  With(tables.queryFacts[q].utility, LAMBDA utility :
  With(Len(scoped) = 0 /\ (selectedScope = "law_only" \/ ~utility), LAMBDA first :
  With(     IF first /\ Len(Refill(tables, contextualQuestion, q, dbOk)) > 0
            THEN Refill(tables, contextualQuestion, q, dbOk) ELSE scoped, LAMBDA r1 :
  With(IF ~utility THEN FilterIfAny(r1, LAMBDA h : HF(tables, h, meta).priority <= 0) ELSE r1, LAMBDA r2 :
  With(Len(r2) = 0 /\ ~utility, LAMBDA second :
  With(IF second /\ Len(Refill(tables, q, q, dbOk)) > 0 THEN Refill(tables, q, q, dbOk) ELSE r2, LAMBDA r3 :
     [rankedHits |-> r3,
      scans |-> (IF first THEN 1 ELSE 0) + (IF second THEN 1 ELSE 0)]))))))

\* The sort of the earthing-value questions: by chunk score, then by rank.
EarthingRerank(tables, rankedHits, contextualQuestion) ==
  SortBy(rankedHits, LAMBDA a, b :
    With(QF(tables, contextualQuestion, a).earthingScore, LAMBDA sa :
    With(QF(tables, contextualQuestion, b).earthingScore, LAMBDA sb :
       sa > sb \/ (sa = sb /\ a.rank > b.rank))))

\* The keys of sortedByQuality in order; a smaller tuple sorts first.
QualityKey(tables, h, contextualQuestion, meta) ==
  <<HF(tables, h, meta).tier, HF(tables, h, meta).noise,
    0 - QF(tables, contextualQuestion, h).matched,
    0 - QF(tables, contextualQuestion, h).domain,
    0 - QF(tables, contextualQuestion, h).boost,
    0 - h.rank>>

\* Lexicographic order of two tuples of numbers of one length.
TupleLess(u, w) ==
  \E k \in 1..Len(u) : u[k] < w[k] /\ \A j \in 1..(k - 1) : u[j] = w[j]

sortedByQuality(tables, rankedHits, contextualQuestion, meta) ==
  SortBy(rankedHits, LAMBDA a, b :
    TupleLess(QualityKey(tables, a, contextualQuestion, meta),
              QualityKey(tables, b, contextualQuestion, meta)))

MaxTopHits == 4

MinFingerprintLength == 20

RECURSIVE DiverseFrom(_, _, _, _, _)
\* The loop over sortedByQuality from hit k on, with the hits chosen so far.
DiverseFrom(tables, sorted, k, diverseTop, meta) ==
  IF k > Len(sorted) \/ Len(diverseTop) >= MaxTopHits THEN diverseTop
  ELSE LET h == sorted[k]
           fp == HF(tables, h, meta).fp
           seen == \E i \in 1..Len(diverseTop) :
                     \/ HF(tables, diverseTop[i], meta).fp = fp
                     \/ diverseTop[i].source_title = h.source_title
       IN IF Len(fp) < MinFingerprintLength \/ seen
          THEN DiverseFrom(tables, sorted, k + 1, diverseTop, meta)
          ELSE DiverseFrom(tables, sorted, k + 1, Append(diverseTop, h), meta)

\* A selection that always takes the first ranked hits.
FirstRankedHits(tables, rankedHits, contextualQuestion, meta) ==
  Take(rankedHits, MaxTopHits)

\* top: the diverse hits, or the first four ranked hits when there is none.
TopHits(tables, rankedHits, contextualQuestion, meta) ==
  With(             DiverseFrom(tables, sortedByQuality(tables, rankedHits, contextualQuestion, meta),
                                1, <<>>, meta), LAMBDA diverseTop :
     IF Len(diverseTop) > 0 THEN diverseTop ELSE Take(rankedHits, MaxTopHits))

allSourcesText(segments) ==
  JoinWith([i \in 1..Len(segments) |->
              ((segments[i].title \o "\n") \o (segments[i].section \o "\n"))
                \o segments[i].text],
           "\n---\n", 1)

\* evidence: the normalized texts of the top hits.
allSourcesEvidenceText(evidence) == JoinWith(evidence, "\n", 1)

\* ------------------------------------------------------------------------
\* Retrieval: from the collected hits to the evidence of the synthesis
\* ------------------------------------------------------------------------

LawTitle == "חוק ותקנות"

\* The clarifications that end the retrieval without a synthesis.
NoHitsAnswer ==
  MkAnswer("rag", LawTitle,
    "לא מצאתי במאגר המקוון קטעים רלוונטיים מספיק. נסה ניסוח אחר או נוסיף מקורות נוספים.",
    "כדי לדייק: על איזה סוג מתקן/סביבה אתה שואל (למשל אמבטיה, לוח, הארקה, אתר רפואי)?",
    "low")

BathroomClarification ==
  MkAnswer("rag", LawTitle,
    "לא מצאתי כרגע במאגר החוקי קטע ברור מספיק על 'אמבטיה' בהקשר שביקשת.",
    "בחר הקשר: בית מגורים / אתר רפואי / מתקן אחר, ומה בדיוק נדרש: מרחק, סוג שקע, או דרישת הגנה.",
    "low")

NoLegalHitsAnswer ==
  MkAnswer("rag", LawTitle,
    "לא מצאתי במאגר החוקי קטעים רלוונטיים מספיק לשאלה זו. נסה ניסוח ממוקד יותר (למשל: \"מרחק מאמבטיה לפי תקנות\") או עדכן מקורות חוק/תקנות נוספים.",
    "כדי למקד: באיזה הקשר מדובר - בית מגורים, אתר רפואי, או מתקן אחר?",
    "low")

NoOhmSourceAnswer ==
  MkAnswer("rag", LawTitle,
    "אין לי במקורות שהוחזרו סעיף שמדבר על התנגדות הארקה באוהם, אז לא ניתן לקבוע תקינות מתוך המסמכים כרגע.",
    "מה בדיוק נמדד: R_A של האלקטרודה, Zs (לולאת תקלה), או רציפות מוליך PE? ואיפה מדדת?",
    "low")

\* The same answer given as a verdict: no follow-up question, confidence medium.
EarthingTermsVerdict ==
  MkAnswer("flow", EarthingTitle,
    "במקורות שנשלפו לא נמצאו מונחים טכניים מספיקים (RA/Zs/Ω), לכן אי אפשר לקבוע ערך תקין כרגע.",
    Undef, "medium")

NoEarthingTermsAnswer ==
  MkAnswer("flow", EarthingTitle,
    "במקורות שנשלפו לא נמצאו מונחים טכניים מספיקים (RA/Zs/Ω), לכן אי אפשר לקבוע ערך תקין כרגע.",
    "מה נמדד בפועל (RA/Zs/PE), ומה שיטת האיפוס (TT/TN)?",
    "low")

NoLoopFaultSourceAnswer ==
  MkAnswer("rag", LoopFaultTitle,
    "לא הצלחתי לשלוף מהמאגר סעיף שמדבר על לולאת תקלה (Zs), לכן אני לא נותן תשובה מבוססת תקנות כרגע.",
    "אתה רוצה הגדרה של Zs או חישוב Zs מקסימלי? ואם חישוב - מה סוג ההגנה והזרם הנקוב?",
    "low")

\* Ranks in hundredths: 1.2 is 120, 0.7 is 70.
HighRank == 120

MediumRank == 70

\* The confidence of the rank of the first ranked hit.
ConfidenceOfRank(rank) ==
  IF rank >= HighRank THEN "high" ELSE IF rank >= MediumRank THEN "medium" ELSE "low"

\* The part of a retrieval that ends early: no evidence is kept.
EarlyExit(exit, answer, topic, scans, metadataCalls) ==
  [exit |-> exit, answer |-> answer, topic |-> topic, scans |-> scans,
   metadataCalls |-> metadataCalls, top |-> <<>>, priorities |-> <<>>,
   unitEvidence |-> FALSE, rankedHits |-> <<>>,
   sources |-> <<>>, segments |-> 0, confidence |-> "low"]

\* One hit as the outcome of a retrieval records it.
HitId(h) == [locator |-> h.locator, rank |-> h.rank]

\* The search loop's hits deduplicated, or the direct scan when there is none.
CollectStage(tables, contextualQuestion, collected, dbOk) ==
  With(dedupeHits(tables, collected), LAMBDA deduped :
    IF Len(deduped) = 0
    THEN [hits |-> Scan(tables, contextualQuestion, ScanLimit, dbOk), scans |-> 1]
    ELSE [hits |-> deduped, scans |-> 0])

\* The same without the rule that a question that is not about the utility is
\* answered from hits of priority 0 or less only.
RankStageWithoutHardRule(tables, hits, q, contextualQuestion, selectedScope, meta, dbOk) ==
  LET Stop(exit, scans) == [exit |-> exit, rankedHits |-> <<>>, scans |-> scans]
  IN
  With(FilterStages(tables, hits, q, contextualQuestion, selectedScope, meta), LAMBDA scoped :
  With(RefillStages(tables, scoped, q, contextualQuestion, selectedScope, meta, dbOk),
       LAMBDA refilled :
    IF Len(refilled.rankedHits) = 0 /\ tables.queryFacts[q].bathroom
       /\ ~tables.queryFacts[q].medical
    THEN Stop("bathroom", refilled.scans)
    ELSE
    With(FilterIfAny(refilled.rankedHits, LAMBDA h : HF(tables, h, meta).readable),
         LAMBDA ruled :
        [exit |-> "",
         rankedHits |-> IF tables.queryFacts[contextualQuestion].earthingValueIntent
                           /\ Len(ruled) > 0
                        THEN EarthingRerank(tables, ruled, contextualQuestion) ELSE ruled,
         scans |-> refilled.scans])))

\* The handler from the first sort to the rerank: the ranked hits, the direct
\* scans run, and the return statement reached ("" for none).
RankStage(tables, hits, q, contextualQuestion, selectedScope, meta, dbOk) ==
  With(tables.queryFacts[q].utility, LAMBDA utility :
  LET Stop(exit, scans) == [exit |-> exit, rankedHits |-> <<>>, scans |-> scans]
  IN
  With(FilterStages(tables, hits, q, contextualQuestion, selectedScope, meta), LAMBDA scoped :
  With(RefillStages(tables, scoped, q, contextualQuestion, selectedScope, meta, dbOk),
       LAMBDA refilled :
    IF Len(refilled.rankedHits) = 0 /\ tables.queryFacts[q].bathroom
       /\ ~tables.queryFacts[q].medical
    THEN Stop("bathroom", refilled.scans)
    ELSE
    With(FilterIfAny(refilled.rankedHits, LAMBDA h : HF(tables, h, meta).readable),
         LAMBDA readable :
    With(Filter(readable, LAMBDA h : HF(tables, h, meta).priority <= 0), LAMBDA legalHits :
      IF ~utility /\ Len(legalHits) = 0 THEN Stop("no_legal", refilled.scans)
      ELSE
      With(IF ~utility THEN legalHits ELSE readable, LAMBDA ruled :
        [exit |-> "",
         rankedHits |-> IF tables.queryFacts[contextualQuestion].earthingValueIntent
                           /\ Len(ruled) > 0
                        THEN EarthingRerank(tables, ruled, contextualQuestion) ELSE ruled,
         scans |-> refilled.scans]))))))

\* The handler from the choice of the top hits to the confidence that it hands
\* to the synthesis.
EvidenceStage(tables, rankedHits, q, contextualQuestion, meta, scans) ==
  With(tables.queryFacts[contextualQuestion], LAMBDA facts :
  With(TopHits(tables, rankedHits, contextualQuestion, meta), LAMBDA top :
  With(Listed([i \in 1..Len(top) |-> HF(tables, top[i], meta).segment]), LAMBDA segments :
  With(Listed([i \in 1..Len(top) |-> HF(tables, top[i], meta).sourceRef]), LAMBDA sources :
  With(allSourcesText(segments), LAMBDA sourcesText :
  With(allSourcesEvidenceText(
         Listed([i \in 1..Len(top) |-> HF(tables, top[i], meta).evidence])),
       LAMBDA evidenceText :
  With(earthingTermEvidenceExists(evidenceText), LAMBDA earthingTerms :
  With(loopFaultEvidenceExists(evidenceText), LAMBDA loopFault :
  With(IF \/ ~numericEvidenceExists(contextualQuestion, evidenceText)
          \/ (facts.earthingValueIntent /\ ~earthingTerms)
          \/ (facts.loopFaultIntent /\ ~loopFault)
       THEN "low" ELSE ConfidenceOfRank(rankedHits[1].rank),
       LAMBDA confidence :
    IF tables.queryFacts[q].looksLikeOhms /\ ~sourcesContainAny(sourcesText)
    THEN EarlyExit("no_ohm_source", NoOhmSourceAnswer, "earthing", scans, 1)
    ELSE IF facts.earthingValueIntent /\ ~earthingTerms
    THEN EarlyExit("no_earthing_terms", NoEarthingTermsAnswer, "earthing", scans, 1)
    ELSE IF facts.loopFaultIntent /\ ~loopFault
    THEN EarlyExit("no_loop_fault", NoLoopFaultSourceAnswer, "loop_fault", scans, 1)
    ELSE IF Len(rankedHits) = 0
    THEN EarlyExit("exception", NullAnswer, Undef, scans, 1)
    ELSE [exit |-> "synthesis", answer |-> NullAnswer, topic |-> Undef,
          scans |-> scans, metadataCalls |-> 1,
          top |-> Listed([i \in 1..Len(top) |-> HitId(top[i])]),
          priorities |-> Listed([i \in 1..Len(top) |-> HF(tables, top[i], meta).priority]),
          unitEvidence |-> NumberWithUnit(ToLower(evidenceText)),
          rankedHits |-> Listed([i \in 1..Len(rankedHits) |-> HitId(rankedHits[i])]),
          sources |-> sources, segments |-> Len(segments),
          confidence |-> confidence])))))))))

\* The handler from dedupeHits to the confidence that it hands to the
\* synthesis.  collected: the hits of the search calls; metadataOk: the lookup
\* of the sources returns data; dbOk: the reads of the direct scan succeed.
\* exit names the return statement reached, "synthesis" for none before the
\* synthesis, "exception" for the read of rankedHits[0] of an empty list; topic
\* is the topic that a clarification writes to the chat state, or Undef.
retrieve(tables, q, contextualQuestion, selectedScope, collected, metadataOk, dbOk) ==
  With(CollectStage(tables, contextualQuestion, collected, dbOk), LAMBDA c :
    IF Len(c.hits) = 0 THEN EarlyExit("no_hits", NoHitsAnswer, Undef, c.scans, 0)
    ELSE
    With(LookedUpTitles(c.hits, metadataOk), LAMBDA meta :
    With(RankStage(tables, c.hits, q, contextualQuestion, selectedScope, meta, dbOk),
         LAMBDA r :
      IF r.exit = "bathroom"
      THEN EarlyExit("bathroom", BathroomClarification, Undef, c.scans + r.scans, 1)
      ELSE IF r.exit = "no_legal"
      THEN EarlyExit("no_legal", NoLegalHitsAnswer, Undef, c.scans + r.scans, 1)
      ELSE EvidenceStage(tables, r.rankedHits, q, contextualQuestion, meta,
                         c.scans + r.scans))))

\* ------------------------------------------------------------------------
\* The search calls of the handler
\* ------------------------------------------------------------------------

\* queryExpansions, in the order of its entries.
QueryExpansions ==
  <<"שניידר", "שניידר אלקטריק", "ארכה", "אסקו", "א.ר. אסקו", "wise electric", "אל-קם">>

ExpansionOf(hebrew) ==
  CASE hebrew = "שניידר" -> "Schneider"
    [] hebrew = "שניידר אלקטריק" -> "Schneider Electric"
    [] hebrew = "ארכה" -> "ERCO"
    [] hebrew = "אסקו" -> "Aresco"
    [] hebrew = "א.ר. אסקו" -> "A.R. Aresco"
    [] hebrew = "wise electric" -> "Wise Electric"
    [] OTHER -> "El-Kam"

\* expandedQuery: the question with the English name of the first brand it holds.
expandedQuery(contextualQuestion) ==
  With({k \in 1..Len(QueryExpansions) : Has(contextualQuestion, QueryExpansions[k])}, LAMBDA found :
     IF found = {} THEN contextualQuestion
     ELSE contextualQuestion \o " " \o ExpansionOf(QueryExpansions[Min(found)]))

EarthingQuerySuffix ==
  " RA R_A התנגדות אלקטרודה Zs לולאת תקלה TT TN מפסק מגן פחת IΔn מתח מגע זמן ניתוק Ω ohm ערך מותר לא יעלה"

LoopFaultQuerySuffix ==
  " Zs impedance fault loop לולאת תקלה התנגדות לולאה זמן ניתוק מאמ\"ת B C D נתיך Ia Uo"

retrievalQuery(tables, contextualQuestion, issueTypeRaw) ==
  With(expandedQuery(contextualQuestion), LAMBDA expanded :
  With(HasAny(issueTypeRaw, {"הארקה", "לולאת תקלה"}), LAMBDA isEarthingIssueType :
  With(
        IF \/ isEarthingValueQuestion(tables, contextualQuestion)
           \/ looksLikeEarthingOhmsQuestion(contextualQuestion)
           \/ /\ isEarthingIssueType
              /\ HasAny(ToLower(contextualQuestion), {"אוהם", "ω", "ohm", "התנגדות"})
        THEN expanded \o EarthingQuerySuffix ELSE expanded, LAMBDA base :
     IF isLoopFaultQuestion(tables, contextualQuestion) THEN base \o LoopFaultQuerySuffix ELSE base)))

\* queryVariants.length of a turn, for the questions and the issue types of
\* the model, computed once.
QueryVariantCounts(tables) ==
  Memo([k \in UserTexts \X Histories \X IssueTypes |->
     Len(buildExpandedQueries(tables, retrievalQuery(tables, Contextual(tables, k[1], k[2]), Trim(k[3]))))])

\* What search_chunks returns to every call of a turn that does not fail
\* (rank in hundredths).  The index, the catalog and the medical regulation
\* are among the hits of the earthing list.
HitLists ==
  [none |-> <<>>,
   earthing |-> <<HitOf("c7", 150), HitOf("c9", 140), HitOf("c1", 130), HitOf("c2", 90),
                  HitOf("c5", 80), HitOf("c6", 60)>>,
   loop |-> <<HitOf("c3", 130), HitOf("c6", 100)>>,
   utility |-> <<HitOf("c8", 90)>>,
   low |-> <<HitOf("c2", 50)>>,
   brief |-> <<HitOf("c10", 120), HitOf("c11", 110)>>]

\* The calls of a turn that return an error: none, the second, or every call.
SearchFailures == {{}, {2}, 1..MaxQueryVariants}

\* The loop over queryVariants: the number of calls made, whether one of them
\* returned an error (the handler then returns), and collectedHits.
searchLoop(variants, failing, hits) ==
  With(failing \cap (1..variants), LAMBDA failed :
     IF failed # {}
     THEN [calls |-> Min(failed), error |-> TRUE, collectedHits |-> <<>>]
     ELSE [calls |-> variants, error |-> FALSE,
           collectedHits |-> IF variants >= 2 THEN hits \o hits ELSE hits])

\* The databases that the scan and the metadata lookup read: healthy, without
\* an answer to the metadata lookup, without an answer to the scan.
Backends ==
  {[metadataOk |-> TRUE, dbOk |-> TRUE], [metadataOk |-> FALSE, dbOk |-> TRUE],
   [metadataOk |-> TRUE, dbOk |-> FALSE]}

Scopes == {"law_only", "law_plus_utility", "all"}

\* retrieve for every question, scope, list of hits and database of the model,
\* computed once (dedupeHits gives the same for the list collected once or
\* more often).
Retrievals(tables) ==
  Memo([k \in UserTexts \X Histories \X Scopes \X (DOMAIN HitLists) \X Backends |->
     retrieve(tables, k[1], Contextual(tables, k[1], k[2]), k[3], HitLists[k[4]] \o HitLists[k[4]],
              k[5].metadataOk, k[5].dbOk)])

\* ------------------------------------------------------------------------
\* The synthesis: the generative collaborator and the deterministic composer
\* ------------------------------------------------------------------------

\* What the completion request comes to: it throws, it answers with a status
\* that is not ok, with no content, with a text that is no JSON, with a JSON
\* whose bottomLine is no string, or with one of three answers.
LlmFailures == {"network_error", "http_error", "empty_content", "bad_json", "no_bottom_line"}

LlmAnswers == {"answer_foreign", "answer_bare", "answer_echo"}

LlmOutcomes == LlmFailures \cup LlmAnswers

\* A source that no hit of the database has.
ForeignSource ==
  [title |-> "מדריך לחשמלאי", section |-> "פרק 1", url |-> "https://example.org/guide"]

\* JSON.parse(modelText) of the three answers: one that names a source of its
\* own and is sure of itself, one with a bottomLine and a question and nothing
\* else, one that repeats the sources and the confidence it was given.
ParsedModelAnswer(outcome, sources, confidence) ==
  IF outcome = "answer_foreign"
  THEN [kind |-> "rag", title |-> "תשובה", bottomLine |-> "לפי המדריך הערך תקין.",
        followUpQuestion |-> Undef, sources |-> <<ForeignSource>>, confidence |-> "high"]
  ELSE IF outcome = "answer_bare"
  THEN [kind |-> Undef, title |-> Undef, bottomLine |-> "צריך עוד פרט.",
        followUpQuestion |-> "מה המתח?", sources |-> <<>>, confidence |-> Undef]
  ELSE [kind |-> "rag", title |-> LawTitle, bottomLine |-> "לפי התקנה שנמצאה.",
        followUpQuestion |-> Undef, sources |-> sources, confidence |-> confidence]

\* generateConversationalAnswer: the answer or null, and the number of
\* completion requests sent.
generateConversationalAnswer(apiKey, outcome, sources, confidence) ==
  IF ~apiKey THEN [answer |-> NullAnswer, calls |-> 0]
  ELSE IF outcome \in LlmFailures THEN [answer |-> NullAnswer, calls |-> 1]
  ELSE [answer |-> ParsedModelAnswer(outcome, sources, confidence), calls |-> 1]

\* A composer that does not keep the confidence it is given: what the
\* answers of the handler would be if the composition raised the confidence.
ComposerSureOfItself(question, segments, confidence, sources) ==
  [kind |-> "rag", title |-> LawTitle, bottomLine |-> question,
   followUpQuestion |-> Undef, sources |-> sources, confidence |-> "high"]

\* buildFallbackConversationalAnswer; segments is segments.length.
buildFallbackConversationalAnswer(question, segments, confidence, sources) ==
  IF segments = 0
  THEN [kind |-> "rag", title |-> LawTitle,
        bottomLine |-> "לא מצאתי כרגע מקור חוקי מספיק מדויק לשאלה הזו. אפשר לנסח שאלה ממוקדת יותר לפי תקנה/סעיף או לפי סוג מתקן.",
        followUpQuestion |-> "כדי לדייק: מדובר במבנה מגורים, אתר רפואי, או מתקן תעשייתי?",
        sources |-> sources, confidence |-> "low"]
  ELSE [kind |-> "rag", title |-> LawTitle,
        bottomLine |-> "לפי המקורות שבדקתי, זו התשובה לשאלה \"" \o question \o "\".",
        followUpQuestion |-> "כדי לדייק לפעולה בשטח: מה סוג המתקן ומה המתח הרלוונטי?",
        sources |-> sources, confidence |-> confidence]

\* x || d of JavaScript for an optional string.
OrElse(x, d) == IF Falsy(x) THEN d ELSE x

\* The handler from generateConversationalAnswer to its last return: the
\* Answer of the response and the chat state, and the completion requests sent.
synthesize(q, baseChatState, segments, sources, confidence, apiKey, outcome, debug) ==
  With(generateConversationalAnswer(apiKey, outcome, sources, confidence), LAMBDA llm :
  With(buildFallbackConversationalAnswer(q, segments, confidence, sources), LAMBDA fallback :
  With(IF IsNullAnswer(llm.answer) THEN fallback ELSE llm.answer, LAMBDA basePayload :
  With(
        [basePayload EXCEPT !.kind = OrElse(@, "rag"), !.title = OrElse(@, LawTitle)], LAMBDA responsePayload :
     IF debug
     THEN [answer |-> responsePayload,
           chatState |-> [baseChatState EXCEPT
                            !.stage = "answering",
                            !.pendingQuestion = responsePayload.followUpQuestion,
                            !.lastSummary = responsePayload.bottomLine],
           llmCalls |-> llm.calls]
     ELSE [answer |-> [responsePayload EXCEPT
                         !.followUpQuestion = OrElse(@, Undef),
                         !.confidence = OrElse(@, "low")],
           chatState |-> [baseChatState EXCEPT
                            !.stage = IF Falsy(responsePayload.followUpQuestion)
                                      THEN "answering" ELSE "collecting",
                            !.pendingQuestion = OrElse(responsePayload.followUpQuestion, Undef),
                            !.lastSummary = responsePayload.bottomLine],
           llmCalls |-> llm.calls]))))

\* ------------------------------------------------------------------------
\* The handler before the retrieval
\* ------------------------------------------------------------------------

ChatTopics == {"general", "earthing", "loop_fault", "rcd", "cable"}

\* What the handler reads of the question before the retrieval, computed once.
QuestionFacts(tables) ==
  Memo([t \in UserTexts |->
     [shortCmd |-> detectShortCommand(tables, t),
      shortFollowup |-> isShortFollowupQuestion(tables, t),
      earthingValue |-> isEarthingValueQuestion(tables, t),
      engine |-> runEngine([question |-> t, modeHint |-> "auto", calc |-> Undef,
                            flow |-> Undef]),
      glossary |-> isGlossaryLoopFaultQuestion(tables, sanitizeUserQuestion(tables, t)),
      topic |-> [current \in ChatTopics |-> detectChatTopic(tables, t, current)] @@ <<>>]])

\* topicFromIssueType(issueTypeRaw) of the issue types, computed once.
IssueTopics(tables) ==
  Memo([issueType \in IssueTypes |-> topicFromIssueType(tables, Trim(issueType))])

\* The tables with those that More computes from them.
Extended(tables, More(_)) == More(tables) @@ tables

\* The queries that the turns of the model search with.
RetrievalQueries(tables) ==
  {retrievalQuery(tables, Contextual(tables, k[1], k[2]), Trim(k[3])) :
     k \in UserTexts \X Histories \X IssueTypes}

\* The tables of the texts, of the messages and the hits, of the queries
\* that are searched with, of the contextual questions, and of the turns:
\* each computed once from the ones before it.
TextTables == [norm |-> NormalizedTexts]

MessageTables ==
  Extended(TextTables, LAMBDA tables :
    [parsed |-> ParsedUserText(tables), fingerprints |-> Fingerprints(tables),
     contextual |-> ContextualTable(tables), issueTopics |-> IssueTopics(tables),
     hitFacts |-> HitFacts(tables), questionFacts |-> QuestionFacts(tables)])

SearchTextTables ==
  Extended(MessageTables, LAMBDA tables :
    [norm |-> Memo([t \in RetrievalQueries(tables) |-> normalizeHebrewText(t)])
                @@ tables.norm])

QueryTables ==
  Extended(SearchTextTables, LAMBDA tables :
    [queryHitFacts |-> QueryHitFacts(tables), scans |-> Scans(tables),
     queryFacts |-> QueryFacts(tables), variantCounts |-> QueryVariantCounts(tables)])

Tables ==
  Extended(QueryTables, LAMBDA tables : [retrievals |-> Retrievals(tables)])

GlossaryFollowUp ==
  "אתה רוצה הגדרה בלבד, או חישוב Zs מקסימלי? אם חישוב - מה סוג ההגנה (B/C/D/נתיך) והזרם הנקוב?"

GlossaryAnswer ==
  MkAnswer("flow", LoopFaultTitle,
    "Zs (לולאת תקלה) היא האימפדנס של מסלול התקלה (פאזה->תקלה->PE/PEN/אדמה->מקור), שמשפיע על זרם התקלה וזמן הניתוק של ההגנה.",
    GlossaryFollowUp, "high")

GenericClarification ==
  MkAnswer("flow", "שאלת הבהרה", "כדי להמשיך צריך פרט אחד קצר.",
           "כתוב בקצרה: חישוב / תקין? / מקור / הסבר", "high")

\* A return of the handler before the retrieval, or its baseChatState on the
\* way to the retrieval (exit "").
Returned(exit, answer, chatState) ==
  [exit |-> exit, answer |-> answer, chatState |-> chatState]

Onward(baseChatState) == Returned("", NullAnswer, baseChatState)

\* COMMAND HANDLER
ShortCommandStep(tables, q, baseChatState) ==
  With(tables.questionFacts[q].shortCmd, LAMBDA shortCmd :
  With(baseChatState.topic # "general", LAMBDA hasActiveTopic :
  With(handleShortCommand(shortCmd, baseChatState, q), LAMBDA cmdAnswer :
     IF shortCmd # Null /\ hasActiveTopic /\ Falsy(baseChatState.pendingSlot)
     THEN IF ~IsNullAnswer(cmdAnswer.answer)
          THEN Returned("short_command", cmdAnswer.answer, cmdAnswer.state)
          ELSE Onward(cmdAnswer.state)
     ELSE Onward(baseChatState))))

\* SLOT FILLING: the message is the answer to the pending slot; the next
\* question is asked whether the answer was applied or not.
SlotFillingStep(tables, q, baseChatState) ==
  With(applyPendingAnswer(tables, baseChatState, q), LAMBDA applied :
  With(        IF baseChatState.topic = "earthing"
               THEN nextEarthingQuestion(applied.state)
               ELSE nextLoopFaultQuestion(applied.state), LAMBDA nextQ :
     IF ~Falsy(baseChatState.pendingSlot)
        /\ baseChatState.topic \in {"earthing", "loop_fault"}
     THEN IF ~IsNullAnswer(nextQ.answer)
          THEN Returned("slot_question", nextQ.answer, nextQ.state)
          ELSE Onward(nextQ.state)
     ELSE Onward(baseChatState)))

\* The start of the slot filling for earthing.
EarthingStartStep(tables, q, baseChatState) ==
  With(nextEarthingQuestion(baseChatState), LAMBDA nextQ :
     IF baseChatState.topic = "earthing" /\ Falsy(baseChatState.pendingSlot)
        /\ tables.questionFacts[q].earthingValue
     THEN IF ~IsNullAnswer(nextQ.answer)
          THEN Returned("earthing_start", nextQ.answer, nextQ.state)
          ELSE Onward(nextQ.state)
     ELSE Onward(baseChatState))

\* Short follow-up questions: the answer to a pending question, or the
\* generic clarification.
ShortFollowupStep(tables, q, baseChatState) ==
  With(baseChatState.topic # "general", LAMBDA hasActiveTopic :
  With(          IF ~Falsy(baseChatState.pendingQuestion)
                 THEN applyPendingAnswer(tables, baseChatState, q)
                 ELSE [state |-> baseChatState, applied |-> FALSE], LAMBDA applied :
  With(        IF applied.state.topic = "loop_fault"
               THEN nextLoopFaultQuestion(applied.state)
               ELSE IF applied.state.topic = "earthing"
               THEN nextEarthingQuestion(applied.state)
               ELSE [state |-> applied.state, answer |-> NullAnswer], LAMBDA nextQ :
     IF Falsy(baseChatState.pendingSlot) /\ tables.questionFacts[q].shortCmd = Null
        /\ tables.questionFacts[q].shortFollowup /\ hasActiveTopic
     THEN IF applied.applied /\ ~IsNullAnswer(nextQ.answer)
          THEN Returned("slot_question", nextQ.answer, nextQ.state)
          ELSE Returned("clarification", GenericClarification,
                        [(IF applied.applied THEN nextQ.state ELSE applied.state)
                           EXCEPT !.stage = "collecting"])
     ELSE Onward(baseChatState))))

\* The answer of the engine, with the chat state made of incomingState (whose
\* slots are the slots of baseChatState).
EngineStep(tables, q, incomingState, baseChatState) ==
  With(tables.questionFacts[q].engine, LAMBDA answer :
     IF ~IsNullAnswer(answer)
     THEN Returned("engine", answer,
                   [incomingState EXCEPT !.topic = baseChatState.topic,
                                         !.stage = "answering",
                                         !.slots = baseChatState.slots,
                                         !.pendingQuestion = Undef,
                                         !.lastSummary = answer.bottomLine])
     ELSE Onward(baseChatState))

\* The glossary answer, and the gate of the earthing-value questions.
GlossaryStep(tables, q, contextualQuestion, baseChatState) ==
  With(nextEarthingQuestion(baseChatState), LAMBDA nextQ :
     IF tables.questionFacts[q].glossary
     THEN Returned("glossary", GlossaryAnswer,
                   [baseChatState EXCEPT !.topic = "loop_fault", !.stage = "collecting",
                                         !.pendingQuestion = GlossaryFollowUp])
     ELSE IF /\ tables.queryFacts[contextualQuestion].earthingValueIntent
             /\ ~tables.queryFacts[contextualQuestion].measurementInfo
             /\ Falsy(baseChatState.pendingSlot)
             /\ baseChatState.topic = "earthing"
     THEN IF ~IsNullAnswer(nextQ.answer)
          THEN Returned("earthing_gate", nextQ.answer, nextQ.state)
          ELSE Onward(nextQ.state)
     ELSE Onward(baseChatState))

\* One step after another until one returns.
AndThen(step, Following(_)) == IF step.exit # "" THEN step ELSE Following(step.chatState)

\* The handler from normalizeChatState to the check of the environment.
BeforeRetrieval(tables, q, issueTypeRaw, history, rawChatState) ==
  With(normalizeChatState(rawChatState), LAMBDA incomingState :
  With(tables.issueTopics[issueTypeRaw], LAMBDA topicByIssueType :
  With(
        tables.questionFacts[q].topic[IF Falsy(topicByIssueType) THEN incomingState.topic
                               ELSE topicByIssueType], LAMBDA activeTopic :
  With([incomingState EXCEPT !.topic = activeTopic], LAMBDA baseChatState :
     AndThen(ShortCommandStep(tables, q, baseChatState), LAMBDA s1 :
     AndThen(SlotFillingStep(tables, q, s1), LAMBDA s2 :
     AndThen(EarthingStartStep(tables, q, s2), LAMBDA s3 :
     AndThen(ShortFollowupStep(tables, q, s3), LAMBDA s4 :
     AndThen(EngineStep(tables, q, incomingState, s4), LAMBDA s5 :
     GlossaryStep(tables, q, Contextual(tables, q, history), s5))))))))))

\* ------------------------------------------------------------------------
\* The conversation: a client that keeps the chat state as
\* components/HomePage.tsx does, and the handler
\* ------------------------------------------------------------------------

\* The number of requests of a conversation.
MaxTurns == 2

\* process.env of the server: complete, without SUPABASE_URL, without
\* SUPABASE_SERVICE_ROLE_KEY, without OPENAI_API_KEY, with DEBUG_RAG=1.
Environments ==
  {[supabaseUrl |-> TRUE, serviceKey |-> TRUE, apiKey |-> TRUE, debug |-> FALSE],
   [supabaseUrl |-> FALSE, serviceKey |-> TRUE, apiKey |-> TRUE, debug |-> FALSE],
   [supabaseUrl |-> TRUE, serviceKey |-> FALSE, apiKey |-> TRUE, debug |-> FALSE],
   [supabaseUrl |-> TRUE, serviceKey |-> TRUE, apiKey |-> FALSE, debug |-> FALSE],
   [supabaseUrl |-> TRUE, serviceKey |-> TRUE, apiKey |-> TRUE, debug |-> TRUE]}

Methods == {"POST", "GET"}

\* chatState: the state of the client; asked: the follow-up question of the
\* answer that the client showed last.  fn, given, result: a function of the
\* handler applied on its own, what it was given and what it returned.
VARIABLES chatState, request, response, env, turns, asked, fn, given, result

vars == <<chatState, request, response, env, turns, asked, fn, given, result>>

\* useState<ChatState>({topic: "general", stage: "collecting", slots: {}})
InitialChatState ==
  [topic |-> "general", stage |-> "collecting", pendingSlot |-> Undef,
   slots |-> EmptySlots, pendingQuestion |-> Undef, lastSummary |-> Undef]

NoRequest ==
  [method |-> "", question |-> Undef, issueType |-> "", scope |-> Undef, history |-> <<>>]

\* A turn that ran one search before anything else.
SearchedFirst ==
  [contextualQuestion |-> "", searchCalls |-> 1, variants |-> 1, failing |-> {},
   scans |-> 0, metadataCalls |-> 0, llmCalls |-> 0, llm |-> "none",
   gateConfidence |-> Undef, supplied |-> <<>>, top |-> <<>>, priorities |-> <<>>,
   unitEvidence |-> FALSE]

\* What the handler did in a turn besides answering: the calls to its
\* collaborators, and the evidence that went into the synthesis.
NoWork ==
  [contextualQuestion |-> "", searchCalls |-> 0, variants |-> 0, failing |-> {},
   scans |-> 0, metadataCalls |-> 0, llmCalls |-> 0, llm |-> "none",
   gateConfidence |-> Undef, supplied |-> <<>>, top |-> <<>>, priorities |-> <<>>,
   unitEvidence |-> FALSE]

\* status 0: no response is on its way.
NoResponse ==
  [status |-> 0, error |-> "", answer |-> NullAnswer, hasChatState |-> FALSE,
   chatState |-> NoChatState, exit |-> "", work |-> NoWork]

\* res.status(status).json({ error })
ErrorResponse(status, error, exit, work) ==
  [NoResponse EXCEPT !.status = status, !.error = error, !.exit = exit, !.work = work]

\* res.status(200).json({ ...answer, chatState })
AnswerResponse(answer, state, exit, work) ==
  [status |-> 200, error |-> "", answer |-> answer, hasChatState |-> TRUE,
   chatState |-> state, exit |-> exit, work |-> work]

\* The handler from the search loop to its last return.
AfterSearch(tables, q, history, issueType, scope, baseChatState, failing, hitList, backend, outcome) ==
  With(OrElse(scope, "law_only"), LAMBDA selectedScope :
  With(tables.variantCounts[<<q, history, issueType>>], LAMBDA variants :
  With(searchLoop(variants, failing, HitLists[hitList]), LAMBDA search :
  With(tables.retrievals[<<q, history, selectedScope, hitList, backend>>], LAMBDA r :
  With(           [NoWork EXCEPT !.contextualQuestion = Contextual(tables, q, history),
                                 !.searchCalls = search.calls, !.variants = variants,
                                 !.failing = failing], LAMBDA searched :
  With([searched EXCEPT !.scans = r.scans, !.metadataCalls = r.metadataCalls], LAMBDA retrieved :
  With(    synthesize(q, baseChatState, r.segments, r.sources, r.confidence,
                      env.apiKey, outcome, env.debug), LAMBDA s :
     IF search.error
     THEN ErrorResponse(500, "search_chunks failed", "search_error", searched)
     ELSE IF r.exit = "exception"
     THEN ErrorResponse(500, "Internal Server Error", "exception", retrieved)
     ELSE IF r.exit # "synthesis"
     THEN AnswerResponse(r.answer,
                         [baseChatState EXCEPT !.topic = OrElse(r.topic, @),
                                               !.stage = "collecting"],
                         r.exit, retrieved)
     ELSE AnswerResponse(s.answer, s.chatState, "synthesis",
                         [retrieved EXCEPT
                            !.llmCalls = s.llmCalls,
                            !.llm = IF env.apiKey THEN outcome ELSE "no_api_key",
                            !.gateConfidence = r.confidence,
                            !.supplied = r.sources,
                            !.top = r.top,
                            !.priorities = r.priorities,
                            !.unitEvidence = r.unitEvidence]))))))))

\* A search call of the turn returns an error: the handler returns at the
\* first of them.
SearchFails(tables, q, history, issueType, failing) ==
  searchLoop(tables.variantCounts[<<q, history, issueType>>], failing, <<>>).error

\* The turn gets as far as the composition of an answer from evidence.
Synthesizes(tables, q, history, scope, hitList, backend) ==
  tables.retrievals[<<q, history, OrElse(scope, "law_only"), hitList, backend>>].exit = "synthesis"

\* The completion request is made only by a turn that composes an answer and
\* only with an API key; no other turn has an outcome of it.
NoOutcome == "none"

Init ==
  /\ chatState = InitialChatState
  /\ request = NoRequest
  /\ response = NoResponse
  /\ env \in Environments
  /\ turns = 0
  /\ asked = Undef
  /\ fn = ""
  /\ given = <<>>
  /\ result = <<>>

\* export default async function handler(req, res): one request of the client
\* with the chat state it holds, answered.
handler ==
  /\ response.status = 0
  /\ turns < MaxTurns
  /\ turns' = turns + 1
  /\ UNCHANGED <<chatState, env, asked, fn, given, result>>
  /\ \/ \E method \in Methods \ {"POST"} :
          /\ request' = [NoRequest EXCEPT !.method = method]
          /\ response' = ErrorResponse(405, "Method not allowed", "method", NoWork)
     \/ \E question \in Questions \cup {Undef}, issueType \in IssueTypes,
           history \in Histories, tables \in {Tables} :
          LET q == IF Falsy(question) THEN "" ELSE Trim(question)
              Sent(scope) == [method |-> "POST", question |-> question,
                              issueType |-> issueType, scope |-> scope,
                              history |-> history]
          IN IF q = ""
             THEN /\ request' = Sent(Undef)
                  /\ response' = ErrorResponse(400, "Missing question", "missing_question",
                                               NoWork)
             ELSE \E before \in {BeforeRetrieval(tables, q, issueType, history, chatState)} :
                  IF before.exit # ""
             THEN /\ request' = Sent(Undef)
                  /\ response' = AnswerResponse(before.answer, before.chatState,
                                                before.exit, NoWork)
             ELSE IF ~env.supabaseUrl
             THEN /\ request' = Sent(Undef)
                  /\ response' = ErrorResponse(500, "Missing env: SUPABASE_URL",
                                               "missing_url", NoWork)
             ELSE IF ~env.serviceKey
             THEN /\ request' = Sent(Undef)
                  /\ response' = ErrorResponse(500, "Missing env: SUPABASE_SERVICE_ROLE_KEY",
                                               "missing_service_key", NoWork)
             ELSE \E scope \in Scopes, failing \in SearchFailures :
                    /\ request' = Sent(scope)
                    /\ IF SearchFails(tables, q, history, issueType, failing)
                       THEN response' = AfterSearch(tables, q, history, issueType, scope,
                                                    before.chatState, failing, "none",
                                                    CHOOSE b \in Backends : TRUE, NoOutcome)
                       ELSE \E hitList \in DOMAIN HitLists, backend \in Backends :
                              IF Synthesizes(tables, q, history, scope, hitList, backend) /\ env.apiKey
                              THEN \E outcome \in LlmOutcomes :
                                     response' = AfterSearch(tables, q, history, issueType, scope,
                                                             before.chatState, failing,
                                                             hitList, backend, outcome)
                              ELSE response' = AfterSearch(tables, q, history, issueType, scope,
                                                           before.chatState, failing,
                                                           hitList, backend, NoOutcome)

\* askOnline and ask of the client: an answer that is not ok throws, the chat
\* state of an answer replaces the client's.
Receive ==
  /\ response.status # 0
  /\ chatState' = IF response.status = 200 /\ response.hasChatState
                  THEN response.chatState ELSE chatState
  /\ asked' = IF response.status = 200 THEN response.answer.followUpQuestion ELSE Undef
  /\ request' = NoRequest
  /\ response' = NoResponse
  /\ UNCHANGED <<env, turns, fn, given, result>>

Next == handler \/ Receive

Spec == Init /\ [][Next]_vars

\* The slots that the dialogue about an earthing value has collected when it
\* asks a question: the measurement type, then the earthing system, then the
\* residual-current device of an RA measurement in a TT system; the value in
\* ohms is collected from whatever message has one.
EarthingDialogueSlots ==
  {[EmptySlots EXCEPT !.measurement_type = m, !.system = sys, !.rcd_ma = rcd,
                      !.value_ohm = ohm] :
     m \in {Undef, "RA", "ZS", "PE"}, sys \in {Undef, "UNKNOWN", "TT", "TN"},
     rcd \in {Undef, Null}, ohm \in {Undef, "50"}}

\* The slots that the dialogue about the fault loop has collected when it
\* asks a question: the earthing system, then the protection, then the voltage.
LoopFaultDialogueSlots ==
  {[EmptySlots EXCEPT !.system = sys, !.protection = prot] :
     sys \in {Undef, "UNKNOWN", "TT", "TN"}, prot \in {Undef, "?16", "C16"}}

\* The question that the dialogue of a topic asks with the slots it has, and
\* the chat state that it returns with the question.
DialogueTurn(topic, slots) ==
  With([InitialChatState EXCEPT !.topic = topic, !.slots = slots], LAMBDA state :
     IF topic = "earthing" THEN nextEarthingQuestion(state)
     ELSE nextLoopFaultQuestion(state))

\* The slots are collected in the order of the questions.
InDialogueOrder(topic, slots) ==
  IF topic = "earthing"
  THEN /\ Falsy(slots.measurement_type) => Falsy(slots.system)
       /\ slots.rcd_ma = Null
            => slots.measurement_type = "RA" /\ slots.system = "TT"
  ELSE Falsy(slots.system) \/ slots.system = "UNKNOWN" => Falsy(slots.protection)

DialogueTurns ==
  {turn \in {DialogueTurn("earthing", slots) : slots \in
                 {r \in EarthingDialogueSlots : InDialogueOrder("earthing", r)}}
          \cup {DialogueTurn("loop_fault", slots) : slots \in
                 {r \in LoopFaultDialogueSlots : InDialogueOrder("loop_fault", r)}} :
     ~IsNullAnswer(turn.answer)}

\* A conversation that has come to a question of a slot-filling dialogue,
\* before its last request.
DialogueInit ==
  /\ \E turn \in DialogueTurns :
       /\ chatState = turn.state
       /\ asked = turn.answer.followUpQuestion
  /\ request = NoRequest
  /\ response = NoResponse
  /\ env \in Environments
  /\ turns = MaxTurns - 1
  /\ fn = ""
  /\ given = <<>>
  /\ result = <<>>

DialogueSpec == DialogueInit /\ [][Next]_vars

\* ------------------------------------------------------------------------
\* dedupeHits on its own
\* ------------------------------------------------------------------------

\* The longest list of hits that dedupeHits is given.
MaxHits == 3

\* Rows that search_chunks may return: two chunks of a section whose texts
\* differ in case and punctuation only, a chunk without a section, and two
\* chunks of sources whose titles and sections hold the separator of the key.
HitPool ==
  {MkHit("תקנות החשמל", Null, "סעיף 5", "p1", "RA < 50 אוהם", 90),
   MkHit("תקנות החשמל", Null, "סעיף 5", "p2", "ra < 50 אוהם.", 80),
   MkHit("תקנות החשמל", Null, Null, "p3", "לולאת תקלה", 70),
   MkHit("IEC 60364||4", Null, "41", "p4", "Zs", 60),
   MkHit("IEC 60364", Null, "4||41", "p5", "Zs", 50)}

HitSequences == UNION {[1..n -> HitPool] : n \in 0..MaxHits}

\* The fingerprints of the texts of the pool.
PoolTables == [fingerprints |-> Memo([t \in {h.text : h \in HitPool} |-> fingerprint(t)])]

\* No request is being handled.
Idle ==
  /\ chatState = InitialChatState
  /\ request = NoRequest
  /\ response = NoResponse
  /\ env \in Environments
  /\ turns = 0
  /\ asked = Undef

DedupeInit ==
  /\ Idle
  /\ fn = ""
  /\ given \in HitSequences
  /\ result = <<>>

\* hits = dedupeHits(collectedHits)
Dedupe ==
  /\ fn = ""
  /\ fn' = "dedupeHits"
  /\ result' = dedupeHits(PoolTables, given)
  /\ UNCHANGED <<chatState, request, response, env, turns, asked, given>>

DedupeSpec == DedupeInit /\ [][Dedupe]_vars

\* ------------------------------------------------------------------------
\* buildExpandedQueries on its own
\* ------------------------------------------------------------------------

\* Questions put together from an opening, a subject and an ending: with and
\* without a word of synonymMap, a stopword, a prefixed word, a tail of
\* quotes and a run of punctuation.
ExpansionQuestions ==
  {(a \o b) \o c :
     a \in {"", "איך מתקינים ", "מה הדרישות של "},
     b \in {"הארקה", "פחת", "ריכוז מונים", "לוח", "חיבור TT", "אמבטיה", "כבל",
            "הארקה ופחת בלוח"},
     c \in {"", "?", "??", "')", " בבניין מגורים"}}

\* The strings that buildExpandedQueries is given.
ExpansionInputs == ExpansionQuestions \cup UserTexts

ExpansionTables == [norm |-> Memo([t \in ExpansionInputs |-> normalizeHebrewText(t)])]

ExpandInit ==
  /\ Idle
  /\ fn = ""
  /\ given \in ExpansionInputs
  /\ result = <<>>

\* const queryVariants = buildExpandedQueries(retrievalQuery)
Expand ==
  /\ fn = ""
  /\ fn' = "buildExpandedQueries"
  /\ result' = buildExpandedQueries(ExpansionTables, given)
  /\ UNCHANGED <<chatState, request, response, env, turns, asked, given>>

ExpandSpec == ExpandInit /\ [][Expand]_vars

\* ------------------------------------------------------------------------
\* The next-question functions and applyPendingAnswer on their own
\* ------------------------------------------------------------------------

\* Replies of a user to the questions of the dialogues.
SlotReplies ==
  {"RA", "Zs", "PE", "TT", "TN", "לא יודע", "30mA", "אין", "16", "16.5", "C16",
   "נתיך 16", "230", "כן"}

\* The replies that are given to the question for the protective device.
ProtectionReplies == {"16", "16.5", "C16", "נתיך 16", "כן"}

LoweredReplies == {ToLower(normalizeHebrewText(r)) : r \in SlotReplies}

SlotTextTables ==
  [norm |-> Memo([t \in SlotReplies \cup LoweredReplies |-> normalizeHebrewText(t)])]

SlotTables ==
  Extended(SlotTextTables, LAMBDA tables :
    [parsed |-> Memo([t \in SlotReplies |->
       [ohms |-> parseOhms(t),
        measurementType |-> parseMeasurementType(tables, t),
        system |-> parseSystem(tables, t),
        rcd |-> parseRcd(tables, t),
        protection |-> parseProtection(tables, t),
        voltage |-> parseVoltage(tables, t)]])])

\* The values that the parsers store in a slot for the replies, and the
\* slot that has no value yet.
SlotValues(field) == {SlotTables.parsed[r][field] : r \in SlotReplies} \cup {Undef}

\* The chat states of the dialogue about an earthing value and of the
\* dialogue about the fault loop: the slots that the dialogue fills, with the
\* values that the parsers store, and the pending slot of the turn before.
EarthingSlotStates ==
  {[InitialChatState EXCEPT !.topic = "earthing", !.pendingSlot = pending, !.slots = slots] :
     pending \in {Undef, "measurement_type", "system", "rcd"},
     slots \in {[EmptySlots EXCEPT !.measurement_type = m, !.system = sys, !.rcd_ma = rcd,
                                   !.value_ohm = ohm] :
                  m \in SlotValues("measurementType") \ {Null},
                  sys \in SlotValues("system") \ {Null},
                  rcd \in SlotValues("rcd"),
                  ohm \in {Undef, "50"}}}

LoopFaultSlotStates ==
  {[InitialChatState EXCEPT !.topic = "loop_fault", !.pendingSlot = pending, !.slots = slots] :
     pending \in {Undef, "system", "protection", "voltage"},
     slots \in {[EmptySlots EXCEPT !.system = sys, !.protection = prot, !.voltage = volt] :
                  sys \in SlotValues("system") \ {Null},
                  prot \in SlotValues("protection") \ {Null},
                  volt \in SlotValues("voltage") \ {Null}}}

SlotStates == EarthingSlotStates \cup LoopFaultSlotStates

SlotInit ==
  /\ Idle
  /\ fn = ""
  /\ given \in SlotStates
  /\ result = <<>>

\* const nextQ = nextEarthingQuestion(baseChatState)
NextEarthing ==
  /\ fn = ""
  /\ given.topic = "earthing"
  /\ fn' = "nextEarthingQuestion"
  /\ result' = nextEarthingQuestion(given)
  /\ UNCHANGED <<chatState, request, response, env, turns, asked, given>>

\* const nextQ = nextLoopFaultQuestion(baseChatState)
NextLoopFault ==
  /\ fn = ""
  /\ given.topic = "loop_fault"
  /\ fn' = "nextLoopFaultQuestion"
  /\ result' = nextLoopFaultQuestion(given)
  /\ UNCHANGED <<chatState, request, response, env, turns, asked, given>>

\* applyPendingAnswer(baseChatState, q) for a reply to the question for the
\* protective device, and nextLoopFaultQuestion on the state it leaves.
ReplyProtection ==
  /\ fn = ""
  /\ given.topic = "loop_fault"
  /\ given.pendingSlot = "protection"
  /\ \E reply \in ProtectionReplies :
       With(applyPendingAnswer(SlotTables, given, reply), LAMBDA applied :
          /\ fn' = "applyPendingAnswer"
          /\ result' = [reply |-> reply, applied |-> applied.applied,
                        state |-> applied.state,
                        next |-> nextLoopFaultQuestion(applied.state)])
  /\ UNCHANGED <<chatState, request, response, env, turns, asked, given>>

SlotNext == NextEarthing \/ NextLoopFault \/ ReplyProtection

SlotSpec == SlotInit /\ [][SlotNext]_vars

\* ------------------------------------------------------------------------
\* The first sort and the filters of the handler on their own
\* ------------------------------------------------------------------------

\* What the ranker is given: a question, the scope of the request, the hits
\* that the searches returned and whether the metadata lookup returned data.
RankInputs ==
  [q : UserTexts, scope : Scopes, hits : (DOMAIN HitLists) \ {"none"},
   metadataOk : BOOLEAN]

\* One hit as the trail of the filters records it.
RankedId(tables, h, meta) ==
  [locator |-> h.locator, rank |-> h.rank, priority |-> HF(tables, h, meta).priority,
   primaryLaw |-> HF(tables, h, meta).primaryLaw]

RankInit ==
  /\ Idle
  /\ fn = ""
  /\ given \in RankInputs
  /\ result = <<>>

\* rankedHits from the first sort to the scope filter.
RankHits ==
  /\ fn = ""
  /\ fn' = "rankedHits"
  /\ \E tables \in {Tables} :
       With(dedupeHits(tables, HitLists[given.hits] \o HitLists[given.hits]), LAMBDA hits :
       With(LookedUpTitles(hits, given.metadataOk), LAMBDA meta :
       With(FilterTrail(tables, hits, given.q, Contextual(tables, given.q, <<>>),
                        given.scope, meta), LAMBDA trail :
          result' = Listed([k \in 1..Len(trail) |->
                       Listed([i \in 1..Len(trail[k]) |->
                          RankedId(tables, trail[k][i], meta)])]))))
  /\ UNCHANGED <<chatState, request, response, env, turns, asked, given>>

RankSpec == RankInit /\ [][RankHits]_vars

\* ------------------------------------------------------------------------
\* The handler from dedupeHits to the confidence on its own
\* ------------------------------------------------------------------------

\* What search_chunks returns besides the lists of HitLists: the hit of the
\* higher rank shares fewer words with a question on earthing than the hit of
\* the lower rank, or has a text too short for a fingerprint.
EvidenceHitLists ==
  [earthing |-> HitLists.earthing,
   loop |-> HitLists.loop,
   low |-> HitLists.low,
   utility |-> HitLists.utility,
   indexed |-> <<HitOf("c12", 130), HitOf("c1", 60)>>,
   outranked |-> <<HitOf("c2", 130), HitOf("c1", 60)>>,
   shortFirst |-> <<HitOf("c10", 130), HitOf("c1", 60)>>,
   brief |-> HitLists.brief]

RetrieveInputs ==
  [q : UserTexts, scope : Scopes, hits : DOMAIN EvidenceHitLists, backend : Backends]

\* The handler with every key of the environment set.
RetrieveInit ==
  /\ chatState = InitialChatState
  /\ request = NoRequest
  /\ response = NoResponse
  /\ env = [supabaseUrl |-> TRUE, serviceKey |-> TRUE, apiKey |-> TRUE, debug |-> FALSE]
  /\ turns = 0
  /\ asked = Undef
  /\ fn = ""
  /\ given \in RetrieveInputs
  /\ result = <<>>

\* The handler from dedupeHits to the confidence, on the hits of two search
\* calls.
Retrieve ==
  /\ fn = ""
  /\ fn' = "retrieve"
  /\ \E tables \in {Tables} :
       result' = retrieve(tables, given.q, Contextual(tables, given.q, <<>>), given.scope,
                          EvidenceHitLists[given.hits] \o EvidenceHitLists[given.hits],
                          given.backend.metadataOk, given.backend.dbOk)
  /\ UNCHANGED <<chatState, request, response, env, turns, asked, given>>

\* The handler from dedupeHits to the choice of top, with the lists that the
\* choice goes through.
SelectTop ==
  /\ fn = ""
  /\ fn' = "top"
  /\ \E tables \in {Tables} :
       With(Contextual(tables, given.q, <<>>), LAMBDA contextualQuestion :
       With(CollectStage(tables, contextualQuestion,
                         EvidenceHitLists[given.hits] \o EvidenceHitLists[given.hits],
                         given.backend.dbOk), LAMBDA c :
       With(LookedUpTitles(c.hits, given.backend.metadataOk), LAMBDA meta :
       With(RankStage(tables, c.hits, given.q, contextualQuestion, given.scope, meta,
                      given.backend.dbOk), LAMBDA r :
       With(sortedByQuality(tables, r.rankedHits, contextualQuestion, meta), LAMBDA sorted :
          /\ Len(c.hits) > 0
          /\ r.exit = ""
          /\ Len(r.rankedHits) > 0
          /\ result' =
               [rankedHits |-> Listed([i \in 1..Len(r.rankedHits) |-> HitId(r.rankedHits[i])]),
                sortedByQuality |-> Listed([i \in 1..Len(sorted) |-> HitId(sorted[i])]),
                diverseTop |-> Len(DiverseFrom(tables, sorted, 1, <<>>, meta)),
                top |-> With(TopHits(tables, r.rankedHits, contextualQuestion, meta),
                             LAMBDA top : Listed([i \in 1..Len(top) |-> HitId(top[i])]))])))))
  /\ UNCHANGED <<chatState, request, response, env, turns, asked, given>>

RetrieveNext == Retrieve \/ SelectTop

RetrieveSpec == RetrieveInit /\ [][RetrieveNext]_vars

\* ------------------------------------------------------------------------
\* fallbackLawChunkSearch on its own
\* ------------------------------------------------------------------------

\* The questions and the limits that the handler gives the direct scan, on a
\* database that answers and on one that does not.
ScanInputs ==
  [question : QueryTexts(Tables), limit : {ScanLimit, RefillLimit}, dbOk : BOOLEAN]

ScanInit ==
  /\ Idle
  /\ fn = ""
  /\ given \in ScanInputs
  /\ result = <<>>

\* const fallbackHits = await fallbackLawChunkSearch({supabase, question, limit})
DirectScan ==
  /\ fn = ""
  /\ fn' = "fallbackLawChunkSearch"
  /\ \E tables \in {Tables} :
       With(Scan(tables, given.question, given.limit, given.dbOk), LAMBDA hits :
          result' = Listed([i \in 1..Len(hits) |-> HitId(hits[i])]))
  /\ UNCHANGED <<chatState, request, response, env, turns, asked, given>>

ScanSpec == ScanInit /\ [][DirectScan]_vars

TypeOK ==
  /\ response.status \in {0, 200, 400, 405, 500}
  /\ turns \in 0..MaxTurns

\* ------------------------------------------------------------------------
\* The properties
\* ------------------------------------------------------------------------

\* The handler answered the request with an Answer.
Answered == response.status = 200

\* The priorities of the hits that the answer of the turn was composed from.
UsedPriorities ==
  {response.work.priorities[i] : i \in DOMAIN response.work.priorities}

\* C1: an answer has the confidence "high" only if it was composed from
\* evidence, at least one hit of priority 0 or less was among the top hits,
\* and the confidence that the evidence checks left is "high"; an answer
\* that was built without evidence never has it.
C1_HighOnlyFromBindingEvidence ==
  (Answered /\ response.answer.confidence = "high")
    => /\ response.exit = "synthesis"
       /\ \E p \in UsedPriorities : p <= 0
       /\ response.work.gateConfidence = "high"

\* C2: every chat state that the handler returns in a conversation that began
\* with the initial chat state has the stage "collecting" whenever its
\* pendingSlot is set.
C2_PendingSlotOnlyWhileCollecting ==
  (Answered /\ response.hasChatState /\ ~Falsy(response.chatState.pendingSlot))
    => response.chatState.stage = "collecting"

\* C3: the answer to a question that asks for a numeric threshold, composed
\* from top hits of which no text has a number with a unit, has the
\* confidence "low".
C3_NoUnitEvidenceIsLow ==
  (/\ Answered
   /\ response.exit = "synthesis"
   /\ NeedsNumeric(response.work.contextualQuestion)
   /\ ~response.work.unitEvidence)
    => response.answer.confidence = "low"

\* The request is a POST with a question that is not empty.
WellFormedRequest ==
  /\ request.method = "POST"
  /\ ~Falsy(request.question)
  /\ Trim(request.question) # ""

\* C4: every POST with a question that is not empty is answered with status
\* 200 and an Answer that has a confidence, whatever the environment, the
\* search, the metadata lookup and the completion request do.
C4_WellFormedRequestGetsAnswer ==
  (WellFormedRequest /\ response.status # 0)
    => /\ Answered
       /\ response.answer.confidence \in {"low", "medium", "high"}

\* The search calls of the turn that return an error.
FailedCalls == response.work.failing \cap (1..response.work.variants)

\* C5: when the search call of one query variant returns an error, the
\* handler still makes the call of every variant and the request is answered.
C5_SearchGoesOnAfterError ==
  (response.status # 0 /\ FailedCalls = {2})
    => /\ response.work.searchCalls = response.work.variants
       /\ Answered

\* C6: when the search call of every query variant returns an error, the
\* handler still runs the direct scan and the request is answered.
C6_ScanAfterAllSearchesFail ==
  (/\ response.status # 0
   /\ response.work.variants > 0
   /\ FailedCalls = 1..response.work.variants)
    => /\ response.work.scans > 0
       /\ Answered

\* The source references built from the top hits of the turn.
SuppliedSources ==
  {response.work.supplied[i] : i \in DOMAIN response.work.supplied}

\* C7: every source of an answer that was composed from evidence is one of
\* the source references built from the top hits of the turn.
C7_SourcesAreSupplied ==
  (Answered /\ response.exit = "synthesis")
    => \A i \in DOMAIN response.answer.sources :
         response.answer.sources[i] \in SuppliedSources

\* The completion request of the turn gave no answer: there is no API key,
\* or the request failed.
NoModelAnswer ==
  /\ response.exit = "synthesis"
  /\ response.work.llm \in LlmFailures \cup {"no_api_key"}

\* C8: when there is no API key or the completion request fails, the turn is
\* answered with what buildFallbackConversationalAnswer composes from the
\* question, the top hits and their sources, at most one completion request
\* was made (none without a key), and the confidence of the answer is the
\* confidence that the evidence checks left.
C8_FallbackKeepsGateConfidence ==
  NoModelAnswer
    => /\ Answered
       /\ response.work.llmCalls = IF response.work.llm = "no_api_key" THEN 0 ELSE 1
       /\ response.answer.confidence = response.work.gateConfidence
       /\ response.answer.sources = response.work.supplied
       /\ response.answer =
            buildFallbackConversationalAnswer(Trim(request.question),
                                              Len(response.work.top),
                                              response.work.gateConfidence,
                                              response.work.supplied)

\* A completion request that returned no JSON, in a turn whose evidence
\* checks left the confidence "high": the composed answer is returned.
C8_Witness ==
  /\ Answered
  /\ response.exit = "synthesis"
  /\ response.work.llm = "bad_json"
  /\ response.work.llmCalls = 1
  /\ response.work.gateConfidence = "high"
  /\ response.answer.confidence = "high"

\* The first request of a conversation, answered, with a question that
\* isEarthingValueQuestion and looksLikeEarthingOhmsQuestion take for a
\* question about the value of an earthing resistance in ohms.
FirstEarthingOhmsQuestion ==
  /\ turns = 1
  /\ chatState = InitialChatState
  /\ Answered
  /\ WellFormedRequest
  /\ isEarthingValueQuestion(Tables, Trim(request.question))
  /\ looksLikeEarthingOhmsQuestion(Trim(request.question))

\* C9: the answer to a question about the value of an earthing resistance in
\* ohms, asked with no chat state before it, has the confidence "low", no
\* sources, and a follow-up question that asks both what was measured (RA, Zs
\* or the continuity of PE) and which earthing system (TT or TN) is used.
C9_EarthingOhmsQuestionIsClarified ==
  FirstEarthingOhmsQuestion
    => /\ response.answer.confidence = "low"
       /\ response.answer.sources = <<>>
       /\ ~Falsy(response.answer.followUpQuestion)
       /\ HasAny(response.answer.followUpQuestion, {"RA", "Zs", "PE"})
       /\ HasAny(response.answer.followUpQuestion, {"TT", "TN"})

\* The client holds a state of the topic earthing that waits for the
\* measurement type and has no earthing system, and the question of the
\* answered request names a measurement type.
MeasurementTypeReply ==
  /\ Answered
  /\ WellFormedRequest
  /\ chatState.topic = "earthing"
  /\ chatState.pendingSlot = "measurement_type"
  /\ Falsy(chatState.slots.system)
  /\ parseMeasurementType(Tables, Trim(request.question)) # Null

\* C10: a reply that names the measurement type M to a state of the topic
\* earthing that waits for the measurement type and has no earthing system
\* returns a state with slots.measurement_type = M and pendingSlot = "system",
\* and a follow-up question that asks whether the system is TT or TN.
C10_MeasurementTypeThenSystem ==
  MeasurementTypeReply
    => /\ response.chatState.slots.measurement_type =
            parseMeasurementType(Tables, Trim(request.question))
       /\ response.chatState.pendingSlot = "system"
       /\ ~Falsy(response.answer.followUpQuestion)
       /\ Has(response.answer.followUpQuestion, "TT")
       /\ Has(response.answer.followUpQuestion, "TN")

\* A POST, responded to, whose question isGlossaryLoopFaultQuestion takes for
\* a glossary-style question about the fault loop.
GlossaryQuestionAsked ==
  /\ WellFormedRequest
  /\ response.status # 0
  /\ isGlossaryLoopFaultQuestion(Tables, sanitizeUserQuestion(Tables, Trim(request.question)))

\* No call of the turn went to the search, the source metadata or the
\* completion request.
NoCollaboratorCalled ==
  /\ response.work.searchCalls = 0
  /\ response.work.scans = 0
  /\ response.work.metadataCalls = 0
  /\ response.work.llmCalls = 0

\* C11: a glossary-style question about the fault loop is answered with the
\* fixed explanation and its follow-up question that offers the computation,
\* and the turn calls neither the search, nor the source metadata, nor the
\* completion request.
C11_GlossaryQuestionGetsFixedAnswer ==
  GlossaryQuestionAsked
    => /\ Answered
       /\ response.answer = GlossaryAnswer
       /\ response.answer.followUpQuestion = GlossaryFollowUp
       /\ NoCollaboratorCalled

\* A POST, responded to, that came with a chat state that waits for a slot
\* and with a question that applyPendingAnswer does not take for the value of
\* that slot.
FailedReply ==
  /\ WellFormedRequest
  /\ response.status # 0
  /\ ~Falsy(chatState.pendingSlot)
  /\ ~applyPendingAnswer(Tables, chatState, Trim(request.question)).applied

\* C12: a reply that does not parse for the pending slot is answered with the
\* question of the turn before: the returned pendingSlot is the incoming one
\* and the follow-up question is the one that was asked last.
C12_FailedReplyAsksAgain ==
  FailedReply
    => /\ Answered
       /\ response.chatState.pendingSlot = chatState.pendingSlot
       /\ response.answer.followUpQuestion = asked

\* C13: a reply that does not parse for the pending slot leaves the slots of
\* the chat state as they came in.
C13_FailedReplyKeepsSlots ==
  FailedReply
    => /\ Answered
       /\ response.chatState.slots = chatState.slots

\* A POST, responded to, that came with a chat state that waits for a slot
\* and with a question that applyPendingAnswer takes for the value of that slot.
AcceptedReply ==
  /\ WellFormedRequest
  /\ response.status # 0
  /\ ~Falsy(chatState.pendingSlot)
  /\ applyPendingAnswer(Tables, chatState, Trim(request.question)).applied

\* The chat state of the request with the reply applied to it.
AfterReply == applyPendingAnswer(Tables, chatState, Trim(request.question)).state

\* The reply filled the last slot that the dialogue of the topic needs: the
\* next-slot function of the topic has no question left.
LastSlotFilled ==
  /\ AcceptedReply
  /\ \/ /\ chatState.topic = "earthing"
        /\ IsNullAnswer(nextEarthingQuestion(AfterReply).answer)
     \/ /\ chatState.topic = "loop_fault"
        /\ IsNullAnswer(nextLoopFaultQuestion(AfterReply).answer)

\* C14: the turn that fills the last slot of the dialogue about an earthing
\* value or about the fault loop is answered with a result for the topic, and
\* calls neither the search nor the completion request.
C14_LastSlotGivesResultWithoutRetrieval ==
  LastSlotFilled
    => /\ Answered
       /\ response.exit # "synthesis"
       /\ response.work.searchCalls = 0
       /\ response.work.scans = 0
       /\ response.work.llmCalls = 0

\* C15: a dialogue whose replies are all accepted comes to its end: a reply
\* that the parser of the pending slot accepts is never answered with the
\* question for the same slot again, so every accepted reply leaves one slot
\* less to ask for and after as many turns as there are slots none is pending.
C15_AcceptedReplyIsNotAskedAgain ==
  AcceptedReply
    => ~(/\ Answered
         /\ response.exit = "slot_question"
         /\ response.chatState.pendingSlot = chatState.pendingSlot)

\* The (source title, section, fingerprint of the text) of a hit.
Triple(h) == <<h.source_title, OrEmpty(h.section), fingerprint(OrEmpty(h.text))>>

\* The positions of a list of hits that hold the first hit of a triple.
FirstOfTriple(hits) ==
  {i \in 1..Len(hits) : \A j \in 1..(i - 1) : Triple(hits[j]) # Triple(hits[i])}

\* C16: what dedupeHits returns has no two hits of one (source title,
\* section, fingerprint of the text), is the list it was given without the
\* hits that repeat the triple of an earlier hit, and so has one hit of every
\* triple that the list it was given has.
C16_DedupeKeepsFirstOfEveryTriple ==
  fn = "dedupeHits"
    => /\ \A i, j \in 1..Len(result) : Triple(result[i]) = Triple(result[j]) => i = j
       /\ result = Keep(given, FirstOfTriple(given))
       /\ {Triple(given[i]) : i \in 1..Len(given)}
            = {Triple(result[i]) : i \in 1..Len(result)}

\* The lists that hold the hits of a list in another order.
Reordered(hits) ==
  {Listed([i \in 1..Len(hits) |-> hits[order[i]]]) : order \in Permutations(1..Len(hits))}

TriplesOf(hits) == {Triple(hits[i]) : i \in 1..Len(hits)}

HitsOf(hits) == {hits[i] : i \in 1..Len(hits)}

\* The hits of a list that have the same triple are the same record.
EqualKeysAreEqualHits(hits) ==
  \A i, j \in 1..Len(hits) : Triple(hits[i]) = Triple(hits[j]) => hits[i] = hits[j]

\* C20: whatever the order in which the hits arrive, dedupeHits returns hits
\* with the same set of (source title, section, fingerprint of the text),
\* and the same set of hits when the hits of equal triples are equal records.
C20_DedupeIgnoresArrivalOrder ==
  fn = "dedupeHits"
    => \A other \in Reordered(given) :
         /\ TriplesOf(dedupeHits(PoolTables, other)) = TriplesOf(result)
         /\ EqualKeysAreEqualHits(given)
              => HitsOf(dedupeHits(PoolTables, other)) = HitsOf(result)

\* The source title of a top hit as the work of a turn records it.
TitleOfHit(id) == SourceOf(ChunkAt(id.locator).source_id).title

\* The fingerprints of the cleaned texts of the chunks, by locator.
CleanFingerprints ==
  Memo([l \in {c.locator : c \in ChunkRows} |->
          fingerprint(cleanAnswerText(Tables, OrEmpty(ChunkAt(l).text)))])

\* The fingerprint of the cleaned text of a top hit.
FingerprintOfHit(id) == CleanFingerprints[id.locator]

\* No two top hits of the turn have the same source title.
DistinctTitles ==
  \A i, j \in 1..Len(response.work.top) :
    TitleOfHit(response.work.top[i]) = TitleOfHit(response.work.top[j]) => i = j

ChosenOneByOne ==
  \E i \in 1..Len(response.work.top) :
    Len(FingerprintOfHit(response.work.top[i])) >= MinFingerprintLength

SelectedScope == OrElse(request.scope, "law_only")

\* C18: the top hits of an answer to a request of the scope law_only all have
\* a priority of 0 or less, and those of the scope law_plus_utility a
\* priority of 1 or less, whatever the question asks for and whether or not
\* the hits come from the direct scan.
C18_TopHitsAreWithinScope ==
  response.exit = "synthesis"
    => /\ SelectedScope = "law_only" => \A p \in UsedPriorities : p <= 0
       /\ SelectedScope = "law_plus_utility" => \A p \in UsedPriorities : p <= 1


\* ------------------------------------------------------------------------
\* The empty question
\* ------------------------------------------------------------------------

\* The question of the request in flight has no text: absent, empty,
\* whitespace only, or nothing but what sanitizeUserQuestion removes.
EmptyQuestionAsked ==
  /\ response.status # 0
  /\ request.method = "POST"
  /\ \/ Falsy(request.question)
     \/ sanitizeUserQuestion(Tables, request.question) = ""

\* The 400 answer of the handler's first check, returned before anything
\* else of the handler ran.
RejectedAsMissing ==
  /\ response.status = 400
  /\ response.error = "Missing question"
  /\ ~response.hasChatState
  /\ response.work = NoWork

\* C19: a request whose question is empty, whitespace only, or empty after
\* sanitization is rejected with an input error before topic detection,
\* chat-state change, engine routing, retrieval or synthesis.
C19_EmptyQuestionIsRejected == EmptyQuestionAsked => RejectedAsMissing

\* ------------------------------------------------------------------------
\* The query variants
\* ------------------------------------------------------------------------

\* The strings that were added for the question, and the place at which a
\* string was added first.
InsertedTable ==
  Memo([q \in ExpansionInputs |->
     [variants |-> InsertedVariants(ExpansionTables, q),
      sanitized |-> sanitizeUserQuestion(ExpansionTables, q)]])

Inserted == InsertedTable[given].variants

FirstInsertion(v) == Min({k \in 1..Len(Inserted) : Inserted[k] = v})

\* The number of different strings added before place k.
AddedBefore(k) == Cardinality({Inserted[m] : m \in 1..(k - 1)})

\* C21: for a non-empty question buildExpandedQueries returns at most 8
\* query strings, no two of them equal, which are the first different
\* strings in the order in which they were added; the first is the
\* sanitized question.
C21_QueryVariantsAreFewDistinctAndOrdered ==
  fn = "buildExpandedQueries" /\ given # ""
    => /\ Len(result) <= MaxQueryVariants
       /\ Len(result) = Min({MaxQueryVariants, Cardinality({Inserted[k] : k \in 1..Len(Inserted)})})
       /\ \A i, j \in 1..Len(result) : i # j => result[i] # result[j]
       /\ \A i \in 1..Len(result) :
            /\ \E k \in 1..Len(Inserted) : Inserted[k] = result[i]
            /\ AddedBefore(FirstInsertion(result[i])) = i - 1
       /\ result[1] = InsertedTable[given].sanitized

\* More than 8 different strings were added for the question, one of them
\* twice among the first 8, and the 8 first different ones were returned.
C21_Witness ==
  /\ fn = "buildExpandedQueries" /\ given # ""
  /\ Cardinality({Inserted[k] : k \in 1..Len(Inserted)}) > MaxQueryVariants
  /\ \E i, j \in 1..MaxQueryVariants : i < j /\ Inserted[i] = Inserted[j]
  /\ Len(result) = MaxQueryVariants
  /\ result[1] = InsertedTable[given].sanitized

\* ------------------------------------------------------------------------
\* The turns of a dialogue
\* ------------------------------------------------------------------------

\* A POST, responded to, that came with a chat state that waits for a slot.
PendingSlotTurn ==
  /\ WellFormedRequest
  /\ response.status # 0
  /\ ~Falsy(chatState.pendingSlot)

\* C22: a turn that comes with a pending slot is answered by the slot
\* filling alone, with the next question, the result or the question asked
\* again: the engine does not answer it and neither the search, nor the
\* source metadata, nor the completion request is called, whatever the
\* question and the issue type say about the topic.
C22_PendingSlotTurnIsSlotFillingOnly ==
  PendingSlotTurn
    => /\ Answered
       /\ response.exit = "slot_question"
       /\ NoCollaboratorCalled

\* The question has no keyword of a topic: detectChatTopic leaves every
\* current topic as it is.
NamesNoTopic(q) == \A t \in ChatTopics : Tables.questionFacts[q].topic[t] = t

\* A POST, answered with a chat state, that came with a topic other than
\* general and with a question that names no topic.
StickyTopicTurn ==
  /\ WellFormedRequest
  /\ Answered
  /\ response.hasChatState
  /\ chatState.topic # "general"
  /\ NamesNoTopic(Trim(request.question))

\* C23: the topic of a conversation stays: a turn that comes with a topic
\* other than general and with a question that has no keyword of another
\* topic returns a chat state of the same topic, with an issue type and
\* without one.
C23_TopicIsSticky == StickyTopicTurn => response.chatState.topic = chatState.topic

\* activeTopic of the request in flight: detectChatTopic on the question
\* with the topic of the issue type, or else of the incoming chat state.
ActiveTopic ==
  With(Tables.issueTopics[Trim(request.issueType)], LAMBDA topicByIssueType :
     Tables.questionFacts[Trim(request.question)].topic[
        IF Falsy(topicByIssueType) THEN normalizeChatState(chatState).topic
        ELSE topicByIssueType])

\* A POST, responded to, whose question is a short command word, with an
\* active topic and no pending slot.
ShortCommandTurn ==
  /\ WellFormedRequest
  /\ response.status # 0
  /\ Tables.questionFacts[Trim(request.question)].shortCmd # Null
  /\ ActiveTopic # "general"
  /\ Falsy(chatState.pendingSlot)

\* C24: with an active topic and no pending slot a short command word is
\* answered by the command handler of the topic, with the next question for
\* a missing slot or with an explanation, and the turn calls neither the
\* search nor the completion request.
C24_ShortCommandIsAnsweredWithoutRetrieval ==
  ShortCommandTurn
    => /\ Answered
       /\ response.exit = "short_command"
       /\ response.work.searchCalls = 0
       /\ response.work.scans = 0
       /\ response.work.llmCalls = 0

\* A POST, responded to, with no pending slot, an active topic and a
\* question that is short, has no technical term and is no command word.
ShortFollowupTurn ==
  /\ WellFormedRequest
  /\ response.status # 0
  /\ Falsy(chatState.pendingSlot)
  /\ ActiveTopic # "general"
  /\ Tables.questionFacts[Trim(request.question)].shortFollowup
  /\ Tables.questionFacts[Trim(request.question)].shortCmd = Null

\* C25: a short follow-up that comes with a pending question is taken as
\* the answer to that question; the generic clarification that asks for one
\* more detail is returned only when the chat state has no pending question.
C25_ClarificationOnlyWithoutPendingQuestion ==
  ShortFollowupTurn /\ ~Falsy(chatState.pendingQuestion)
    => ~(Answered /\ response.answer = GenericClarification)

\* ------------------------------------------------------------------------
\* The order of the slots
\* ------------------------------------------------------------------------

\* The slots of the dialogue about an earthing value, in the order in which
\* they are asked for.
EarthingSlotOrder == <<"measurement_type", "system", "rcd">>

\* The slot is still to be asked for: the type of measurement has no value;
\* the system has none or is not known; the residual-current device matters
\* (electrode resistance in a TT system) and no rating is stored.
EarthingSlotMissing(slots, slot) ==
  CASE slot = "measurement_type" -> Falsy(slots.measurement_type)
    [] slot = "system" -> Falsy(slots.system) \/ slots.system = "UNKNOWN"
    [] slot = "rcd" -> /\ slots.measurement_type = "RA"
                       /\ slots.system = "TT"
                       /\ slots.rcd_ma \in {Undef, Null}

EarthingMissingSlots(slots) ==
  {k \in 1..Len(EarthingSlotOrder) : EarthingSlotMissing(slots, EarthingSlotOrder[k])}

\* C26: nextEarthingQuestion opens the first missing slot in the order
\* measurement type, earthing system, residual-current rating, and asks for
\* the rating if and only if the measurement is RA, the system is TT and no
\* rating is stored; with nothing missing it clears pendingSlot and returns
\* no question.  It changes nothing else of the chat state.
C26_NextEarthingQuestionOpensFirstMissingSlot ==
  fn = "nextEarthingQuestion"
    => /\ IF EarthingMissingSlots(given.slots) # {}
          THEN /\ result.state.pendingSlot
                    = EarthingSlotOrder[Min(EarthingMissingSlots(given.slots))]
               /\ ~IsNullAnswer(result.answer)
          ELSE /\ result.state.pendingSlot = Undef
               /\ IsNullAnswer(result.answer)
       /\ result.state.pendingSlot = "rcd"
            <=> /\ given.slots.measurement_type = "RA"
                /\ given.slots.system = "TT"
                /\ given.slots.rcd_ma \in {Undef, Null}
       /\ result.state = [given EXCEPT !.pendingSlot = result.state.pendingSlot]

\* The rating is not asked for although the system is TT and no rating is
\* stored, because the measurement is not of the electrode.
C26_Witness ==
  /\ fn = "nextEarthingQuestion"
  /\ given.slots.measurement_type = "ZS"
  /\ given.slots.system = "TT"
  /\ given.slots.rcd_ma = Undef
  /\ given.pendingSlot = "system"
  /\ result.state.pendingSlot = Undef
  /\ IsNullAnswer(result.answer)

\* A protective device with its type: a curve letter and a rating, or a fuse
\* and a rating.
IsFullDevice(p) ==
  /\ ~Falsy(p)
  /\ \/ Ch(p, 1) \in {"B", "C", "D"} /\ Len(p) >= 2 /\ AllDigits(SubSeq(p, 2, Len(p)))
     \/ StartsWith(p, "נתיך ")

\* A rating without the type of the device, as parseProtection stores it.
IsRatingOnly(p) == ~Falsy(p) /\ Ch(p, 1) = "?"

SystemKnown(slots) == ~Falsy(slots.system) /\ slots.system # "UNKNOWN"

\* C27: in the dialogue about the fault loop the system is asked for first,
\* then the protective device, then the voltage; the voltage is asked for
\* only when the system is known and the protection slot holds a device with
\* its type; a protection slot with a rating only keeps the pending slot
\* protection, and a later reply with the full device replaces the rating.
C27_LoopFaultSlotsInOrder ==
  /\ fn = "nextLoopFaultQuestion"
       => /\ ~SystemKnown(given.slots) => result.state.pendingSlot = "system"
          /\ result.state.pendingSlot = "voltage"
               => SystemKnown(given.slots) /\ IsFullDevice(given.slots.protection)
          /\ SystemKnown(given.slots) /\ IsRatingOnly(given.slots.protection)
               => result.state.pendingSlot = "protection"
          /\ SystemKnown(given.slots) /\ Falsy(given.slots.protection)
               => result.state.pendingSlot = "protection"
  /\ fn = "applyPendingAnswer"
       => /\ IsRatingOnly(given.slots.protection)
               /\ IsFullDevice(SlotTables.parsed[result.reply].protection)
               => result.state.slots.protection = SlotTables.parsed[result.reply].protection
          /\ SystemKnown(result.state.slots) /\ IsRatingOnly(result.state.slots.protection)
               => result.next.state.pendingSlot = "protection"

\* ------------------------------------------------------------------------
\* C28  Every filter of the ranker named by the description (allow-list,
\* electricity, corruption, context, catalog suppression, domain intent,
\* scope) leaves a non-empty hit set non-empty.
\* ------------------------------------------------------------------------

\* The places in the trail of the filters that the description names.
NamedFilterStages == {2, 3, 4, 5, 7, 8, 10}

C28_NoFilterStageEmptiesTheHitSet ==
  fn = "rankedHits" =>
    \A k \in NamedFilterStages : Len(result[k - 1]) > 0 => Len(result[k]) > 0

\* ------------------------------------------------------------------------
\* C29  In the order of the first sort a hit of the primary local law stands
\* before every other hit of the statute tier (priority 0).
\* ------------------------------------------------------------------------
C29_PrimaryLocalLawBeforeStatuteTier ==
  fn = "rankedHits" =>
    \A i, j \in 1..Len(result[1]) :
      (/\ result[1][j].primaryLaw
       /\ ~result[1][i].primaryLaw
       /\ result[1][i].priority = 0) => j < i

\* ------------------------------------------------------------------------
\* C30  The confidence handed to the synthesis is the confidence of the rank
\* of the first hit of the selected evidence (rank >= 1.2 high, rank >= 0.7
\* medium, otherwise low), or low.
\* ------------------------------------------------------------------------
C30_ConfidenceFollowsTopHitOfEvidence ==
  (fn = "retrieve" /\ result.exit = "synthesis") =>
    result.confidence \in {"low", ConfidenceOfRank(result.top[1].rank)}

\* ------------------------------------------------------------------------
\* C31  A question on the adequacy of an earthing value whose evidence names
\* none of the earthing terms, and a question on the fault loop whose evidence
\* names none of the fault-loop terms, end in a clarification: confidence low,
\* no sources, a follow-up question, stage collecting, and no completion
\* request in the turn; an answer from evidence is never composed for them.
\* ------------------------------------------------------------------------

\* What the two evidence tests find in the normalized text of a chunk.  The
\* evidence text is the texts of the top hits joined by a line feed, and no
\* term of the two tests holds a line feed.
EvidenceTerms ==
  Memo([l \in Locators |->
     With(Norm(Tables, OrEmpty(ChunkAt(l).text)), LAMBDA evidence :
        [earthing |-> earthingTermEvidenceExists(evidence),
         loopFault |-> loopFaultEvidenceExists(evidence)])])

\* The evidence of the turn is short of the terms that its question needs.
EvidenceLacksTerms ==
  With(Tables.queryFacts[response.work.contextualQuestion], LAMBDA facts :
     \/ /\ facts.earthingValueIntent
        /\ \A i \in 1..Len(response.work.top) :
              ~EvidenceTerms[response.work.top[i].locator].earthing
     \/ /\ facts.loopFaultIntent
        /\ \A i \in 1..Len(response.work.top) :
              ~EvidenceTerms[response.work.top[i].locator].loopFault)

EvidenceClarification ==
  /\ response.answer.confidence = "low"
  /\ response.answer.sources = <<>>
  /\ ~Falsy(response.answer.followUpQuestion)
  /\ response.chatState.stage = "collecting"
  /\ response.work.llmCalls = 0

C32_FallbackTopIsFirstOfSortedByQuality ==
  (fn = "top" /\ result.diverseTop = 0) =>
    result.top = Take(result.sortedByQuality, MaxTopHits)

\* ------------------------------------------------------------------------
\* C33  The chat state returned with an answer that holds a follow-up
\* question holds that question as pendingQuestion.
\* ------------------------------------------------------------------------
C33_PendingQuestionIsTheFollowUpQuestion ==
  (Answered /\ ~Falsy(response.answer.followUpQuestion)) =>
    response.chatState.pendingQuestion = response.answer.followUpQuestion

\* ------------------------------------------------------------------------
\* C34  The stage returned with an answer is collecting when the answer holds
\* a follow-up question and answering when it holds none.
\* ------------------------------------------------------------------------
C34_StageFollowsTheFollowUpQuestion ==
  Answered =>
    response.chatState.stage =
      IF Falsy(response.answer.followUpQuestion) THEN "answering" ELSE "collecting"

\* ------------------------------------------------------------------------
\* C35  After a turn of a conversation on earthing or on the fault loop whose
\* message holds a number with an ohm unit, the chat state returned holds
\* that number as slots.value_ohm.
\* ------------------------------------------------------------------------

\* parseOhms of the message of the turn, Null when it holds no ohm value.
StatedOhms ==
  IF Falsy(request.question) THEN Null
  ELSE Tables.parsed[Trim(request.question)].ohms

C35_StatedOhmValueIsCaptured ==
  (/\ Answered
   /\ response.chatState.topic \in {"earthing", "loop_fault"}
   /\ StatedOhms # Null)
    => response.chatState.slots.value_ohm = StatedOhms

\* ------------------------------------------------------------------------
\* C36  Every top hit of an answer composed from evidence is a chunk of the
\* primary local law or of a government source, and of no index page, as the
\* row of its source in the database tells.
\* ------------------------------------------------------------------------

\* The source of a top hit as the sources table holds it.
SourceOfHit(id) == SourceOf(ChunkAt(id.locator).source_id)

FromAllowedSource(id) ==
  With(SourceOfHit(id), LAMBDA s :
     /\ isPrimaryLocalLawSource(s) \/ isGovernmentLawSource(s)
     /\ ~isMaskedIndexSource([title |-> s.title, url |-> s.url, docType |-> s.doc_type]))

\* FromAllowedSource for the chunks of the model, computed once.
AllowedChunks == {l \in Locators : FromAllowedSource([locator |-> l])}

C36_TopHitsComeFromAllowedSources ==
  (fn = "retrieve" /\ result.exit = "synthesis") =>
    \A i \in 1..Len(result.top) : result.top[i].locator \in AllowedChunks

\* ------------------------------------------------------------------------
\* C37  For a question without medical intent no top hit is a chunk of the
\* regulation on medical sites, and when the searches returned that chunk
\* together with chunks of the earthing regulation, a chunk of the earthing
\* regulation is among the top hits.
\* ------------------------------------------------------------------------

\* The chunks of the regulation on medical sites, and of the earthing
\* regulation.
MedicalSiteChunks == {c.locator : c \in {r \in ChunkRows : r.source_id = "med"}}

EarthingRegulationChunks == {c.locator : c \in {r \in ChunkRows : r.source_id = "reg"}}

\* retrieve composed evidence for a question without medical intent.
EvidenceWithoutMedicalIntent ==
  /\ fn = "retrieve"
  /\ result.exit = "synthesis"
  /\ ~Tables.queryFacts[given.q].medical

C37_NoMedicalSiteHitWithoutMedicalIntent ==
  EvidenceWithoutMedicalIntent =>
    /\ \A i \in 1..Len(result.top) : result.top[i].locator \notin MedicalSiteChunks
    /\ given.hits = "earthing" =>
         \E i \in 1..Len(result.top) : result.top[i].locator \in EarthingRegulationChunks

C37_Witness ==
  /\ EvidenceWithoutMedicalIntent
  /\ given.hits = "earthing"
  /\ \E i \in 1..Len(result.top) : result.top[i].locator \in EarthingRegulationChunks
  /\ \A i \in 1..Len(result.top) : result.top[i].locator \notin MedicalSiteChunks

\* ------------------------------------------------------------------------
\* C38  For a question that is not about the utility, either every top hit
\* has priority 0 or less, or the retrieval ends in a clarification without
\* sources and with confidence low.
\* ------------------------------------------------------------------------
C38_NoAnswerFromUtilityOrUnclassifiedHits ==
  (fn = "retrieve" /\ ~Tables.queryFacts[given.q].utility) =>
    IF result.exit = "synthesis"
    THEN /\ Len(result.top) > 0
         /\ \A i \in 1..Len(result.priorities) : result.priorities[i] <= 0
    ELSE /\ ~IsNullAnswer(result.answer)
         /\ result.answer.sources = <<>>
         /\ result.answer.confidence = "low"

C38_Witness ==
  /\ fn = "retrieve"
  /\ given.hits = "utility"
  /\ ~Tables.queryFacts[given.q].utility
  /\ result.exit = "no_legal"
  /\ result.answer.confidence = "low"

\* ------------------------------------------------------------------------
\* C39  A turn answered with a slot question, the result of a short command,
\* the generic clarification, an answer of the engine or the glossary answer
\* has called neither the search, nor the source metadata, nor the direct
\* scan, nor the completion request.
\* ------------------------------------------------------------------------

\* The returns of the handler before it reads the environment.
TurnResolutionExits ==
  {"short_command", "slot_question", "earthing_start", "clarification", "engine",
   "glossary"}

C39_TurnResolutionCallsNoCollaborator ==
  (Answered /\ response.exit \in TurnResolutionExits) => NoCollaboratorCalled

\* The glossary answer, the last of these returns, reached on a server that
\* could not have searched.
C39_Witness ==
  /\ Answered
  /\ response.exit = "glossary"
  /\ ~env.supabaseUrl
  /\ NoCollaboratorCalled

\* ------------------------------------------------------------------------
\* C40  Every chunk that the direct scan returns has a score of at least the
\* minimum of the domain of the question, and its text holds the whole
\* question, or its text, its section or the title of its source holds a
\* token of the question.
\* ------------------------------------------------------------------------

\* The chunk overlaps the question.
ScanOverlap(tables, question, row) ==
  With(ToLower(Norm(tables, question)), LAMBDA qNorm :
  With(extractSearchTokens(tables, question), LAMBDA qTokens :
  With(ToLower(Norm(tables, OrEmpty(row.text))), LAMBDA hay :
  With(ToLower(OrEmpty(row.section)), LAMBDA section :
  With(ToLower(SourceOf(row.source_id).title), LAMBDA title :
     \/ qNorm # "" /\ Has(hay, qNorm)
     \/ \E i \in 1..Len(qTokens) :
          Has(hay, qTokens[i]) \/ Has(section, qTokens[i]) \/ Has(title, qTokens[i]))))))

\* ScanOverlap and the minimum score for the questions and the chunks of the
\* model, computed once.
ScanOverlaps ==
  Memo([k \in QueryTexts(Tables) \X Locators |-> ScanOverlap(Tables, k[1], ChunkAt(k[2]))])

ScanMinimum ==
  Memo([t \in QueryTexts(Tables) |->
     IF detectDomainIntent(Tables, t) \in {"bathroom", "grounding"}
     THEN MinScoreFocused ELSE MinScoreGeneral])

C40_DirectScanReturnsOverlappingChunksOnly ==
  fn = "fallbackLawChunkSearch" =>
    \A i \in 1..Len(result) :
      /\ result[i].rank >= ScanMinimum[given.question]
      /\ ScanOverlaps[<<given.question, result[i].locator>>]

====
